---- MODULE Spec2Model ----
(***************************************************************************)
(* A model of the manga-card bot (src/bot.py): the colour resolver, the    *)
(* word wrapper, the drawing stages, render_template and the Telegram      *)
(* handlers that fill a chat's session.                                    *)
(*                                                                         *)
(* Python strings are modelled as sequences of one-character strings, so   *)
(* that strip(), lower(), split() and the hex parser of ImageColor.getrgb  *)
(* are computed character by character.  A Python exception is modelled by *)
(* the variable `raised` holding the exception's name.                     *)
(***************************************************************************)
EXTENDS Integers, Sequences, FiniteSets, TLC

VARIABLES
    pc,         \* position of the call under study
    raised,     \* "none", or the name of the exception that left the call
    COLORS,     \* the colour registry (src/bot.py:23-55)
    val,        \* parse_color: the token argument
    default,    \* parse_color: the default argument
    rgb,        \* parse_color: the returned tuple
    text,       \* word_wrap: the text argument
    font,       \* word_wrap: the font face that measures the text
    max_width,  \* word_wrap: the width limit in pixels
    lines,      \* word_wrap: the returned list of lines
    FONTS,      \* the font registry (src/bot.py:24, 57-68)
    assets,     \* the font files present under assets/fonts
    data,       \* the RenderSpec (a session dict) handed to a drawing call
    canvas,     \* render_template: the canvas, sampled at SamplePoints
    layers,     \* what has been drawn on the canvas so far, in order
    gauge,      \* draw_percentage_box: the panel and the gauge it drew
    thumb,      \* render_template: the thumbnail image that is placed
    SESSIONS,   \* the session store: chat id -> session dict (src/bot.py:116)
    returned,   \* the results of the render calls that have ended, in order
    update      \* the Telegram update that was handled last

colorVars == <<val, default, rgb>>
wrapVars == <<text, font, max_width, lines>>
renderVars == <<FONTS, assets, data, canvas, layers, gauge, thumb>>
callVars == <<SESSIONS, returned, update>>
vars == <<pc, raised, COLORS, val, default, rgb, text, font, max_width, lines,
          FONTS, assets, data, canvas, layers, gauge, thumb, SESSIONS, returned, update>>

(***************************************************************************)
(* Bounds of the model.                                                    *)
(***************************************************************************)
\* spaces put before and after a colour token
MaxPad == 1
\* characters of a text handed to word_wrap
MaxTextLen == 6
\* largest width limit handed to word_wrap
MaxWidth == 6
\* how far below 0 and above 100 the percentages of a RenderSpec go
MaxOver == 3
\* badges in a RenderSpec's badge list
MaxBadges == 6
\* the number of render calls on one RenderSpec
MaxCalls == 2
\* words in a synopsis
MaxWords == 14

(***************************************************************************)
(* Characters and the str methods used by the code.                        *)
(***************************************************************************)
LowerLetters == <<"a","b","c","d","e","f","g","h","i","j","k","l","m",
                  "n","o","p","q","r","s","t","u","v","w","x","y","z">>
UpperLetters == <<"A","B","C","D","E","F","G","H","I","J","K","L","M",
                  "N","O","P","Q","R","S","T","U","V","W","X","Y","Z">>
HexDigits == <<"0","1","2","3","4","5","6","7","8","9","a","b","c","d","e","f">>

IndexIn(c, s) == IF \E i \in 1..Len(s) : s[i] = c
                 THEN CHOOSE i \in 1..Len(s) : s[i] = c
                 ELSE 0

\* str.lower() on one character, and its inverse on a lower-case letter
LowerChar(c) == IF IndexIn(c, UpperLetters) > 0
                THEN LowerLetters[IndexIn(c, UpperLetters)] ELSE c
UpperChar(c) == IF IndexIn(c, LowerLetters) > 0
                THEN UpperLetters[IndexIn(c, LowerLetters)] ELSE c

\* str.lower()
lower(s) == [i \in 1..Len(s) |-> LowerChar(s[i])]

IsSpace(c) == c = " "

\* str.strip(): drop the white space at both ends
RECURSIVE lstrip(_)
lstrip(s) == IF s # <<>> /\ IsSpace(Head(s)) THEN lstrip(Tail(s)) ELSE s
RECURSIVE rstrip(_)
rstrip(s) == IF s # <<>> /\ IsSpace(s[Len(s)])
             THEN rstrip(SubSeq(s, 1, Len(s) - 1)) ELSE s
strip(s) == rstrip(lstrip(s))

(***************************************************************************)
(* The colour registry: an ordered mapping group -> (name -> hex string),  *)
(* here a sequence of groups, each a sequence of <<name, hex>> pairs.      *)
(***************************************************************************)
DefaultCOLORS == <<
    \* "basic"
    << <<<<"b","l","a","c","k">>,         <<"#","0","0","0","0","0","0">>>>,
       <<<<"w","h","i","t","e">>,         <<"#","F","F","F","F","F","F">>>>,
       <<<<"g","r","a","y">>,             <<"#","8","0","8","0","8","0">>>>,
       <<<<"r","e","d">>,                 <<"#","F","F","0","0","0","0">>>>,
       <<<<"b","l","u","e">>,             <<"#","0","0","0","0","F","F">>>>,
       <<<<"g","r","e","e","n">>,         <<"#","0","0","F","F","0","0">>>>,
       <<<<"y","e","l","l","o","w">>,     <<"#","F","F","F","F","0","0">>>>,
       <<<<"o","r","a","n","g","e">>,     <<"#","F","F","A","5","0","0">>>>,
       <<<<"p","u","r","p","l","e">>,     <<"#","8","0","0","0","8","0">>>>,
       <<<<"p","i","n","k">>,             <<"#","F","F","C","0","C","B">>>> >>,
    \* "extended"
    << <<<<"c","y","a","n">>,             <<"#","0","0","F","F","F","F">>>>,
       <<<<"m","a","g","e","n","t","a">>, <<"#","F","F","0","0","F","F">>>>,
       <<<<"l","i","m","e">>,             <<"#","3","2","C","D","3","2">>>>,
       <<<<"t","e","a","l">>,             <<"#","0","0","8","0","8","0">>>>,
       <<<<"i","n","d","i","g","o">>,     <<"#","4","B","0","0","8","2">>>>,
       <<<<"b","r","o","w","n">>,         <<"#","A","5","2","A","2","A">>>>,
       <<<<"g","o","l","d">>,             <<"#","F","F","D","7","0","0">>>>,
       <<<<"s","i","l","v","e","r">>,     <<"#","C","0","C","0","C","0">>>>,
       <<<<"n","a","v","y">>,             <<"#","0","0","0","0","8","0">>>>,
       <<<<"m","a","r","o","o","n">>,     <<"#","8","0","0","0","0","0">>>> >> >>

\* `key in group` and `group[key]` of a dict
InGroup(key, group) == \E i \in 1..Len(group) : group[i][1] = key
GroupGet(key, group) == group[CHOOSE i \in 1..Len(group) : group[i][1] = key][2]

(***************************************************************************)
(* PIL.ImageColor.getrgb, for the colour names and the four hex forms.     *)
(* The functional forms rgb(...), hsl(...), hsv(...) are not modelled and  *)
(* no token of the model uses them.  The result is [ok, rgb]: ok = FALSE   *)
(* stands for the ValueError of an unknown colour specifier.               *)
(***************************************************************************)
colormap == <<
       <<<<"b","l","a","c","k">>,         <<"#","0","0","0","0","0","0">>>>,
       <<<<"w","h","i","t","e">>,         <<"#","f","f","f","f","f","f">>>>,
       <<<<"g","r","a","y">>,             <<"#","8","0","8","0","8","0">>>>,
       <<<<"r","e","d">>,                 <<"#","f","f","0","0","0","0">>>>,
       <<<<"b","l","u","e">>,             <<"#","0","0","0","0","f","f">>>>,
       <<<<"g","r","e","e","n">>,         <<"#","0","0","8","0","0","0">>>>,
       <<<<"y","e","l","l","o","w">>,     <<"#","f","f","f","f","0","0">>>>,
       <<<<"o","r","a","n","g","e">>,     <<"#","f","f","a","5","0","0">>>>,
       <<<<"p","u","r","p","l","e">>,     <<"#","8","0","0","0","8","0">>>>,
       <<<<"p","i","n","k">>,             <<"#","f","f","c","0","c","b">>>>,
       <<<<"c","y","a","n">>,             <<"#","0","0","f","f","f","f">>>>,
       <<<<"m","a","g","e","n","t","a">>, <<"#","f","f","0","0","f","f">>>>,
       <<<<"l","i","m","e">>,             <<"#","0","0","f","f","0","0">>>>,
       <<<<"t","e","a","l">>,             <<"#","0","0","8","0","8","0">>>>,
       <<<<"i","n","d","i","g","o">>,     <<"#","4","b","0","0","8","2">>>>,
       <<<<"b","r","o","w","n">>,         <<"#","a","5","2","a","2","a">>>>,
       <<<<"g","o","l","d">>,             <<"#","f","f","d","7","0","0">>>>,
       <<<<"s","i","l","v","e","r">>,     <<"#","c","0","c","0","c","0">>>>,
       <<<<"n","a","v","y">>,             <<"#","0","0","0","0","8","0">>>>,
       <<<<"m","a","r","o","o","n">>,     <<"#","8","0","0","0","0","0">>>>,
       <<<<"o","l","i","v","e">>,         <<"#","8","0","8","0","0","0">>>> >>

IsHex(c) == IndexIn(c, HexDigits) > 0
HexVal(c) == IndexIn(c, HexDigits) - 1
AllHex(s) == \A i \in 1..Len(s) : IsHex(s[i])

\* the four "#..." forms, on a lower-cased specifier
getrgb_hex(c) ==
    IF Len(c) >= 1 /\ c[1] = "#" /\ AllHex(Tail(c)) /\ Len(c) \in {4, 5, 7, 9}
    THEN [ok |-> TRUE,
          rgb |-> IF Len(c) \in {4, 5}
                  THEN [i \in 1..(Len(c) - 1) |-> 17 * HexVal(c[i + 1])]
                  ELSE [i \in 1..((Len(c) - 1) \div 2) |->
                           16 * HexVal(c[2 * i]) + HexVal(c[2 * i + 1])]]
    ELSE [ok |-> FALSE, rgb |-> <<>>]

getrgb(color) ==
    LET c == lower(color)
    IN  IF InGroup(c, colormap) THEN getrgb_hex(GroupGet(c, colormap))
        ELSE getrgb_hex(c)

(***************************************************************************)
(* parse_color (src/bot.py:155-170).                                       *)
(***************************************************************************)
\* the loop over COLORS.values(): the first group holding the key wins
RECURSIVE registry_lookup(_, _, _)
registry_lookup(v, key, groups) ==
    IF groups = <<>> THEN v
    ELSE IF InGroup(key, Head(groups)) THEN GroupGet(key, Head(groups))
    ELSE registry_lookup(v, key, Tail(groups))

\* a bug that looks the token up as typed, without lower()
lookup_key_as_typed(v) == v

lookup_key(v) == lower(v)

parse_color(v, d) ==
    LET v1 == IF v = <<>> THEN d ELSE v
        v2 == strip(v1)
        v3 == registry_lookup(v2, lookup_key(v2), COLORS)
        r1 == getrgb(v3)
        r2 == getrgb(d)
    IN  IF r1.ok THEN r1.rgb
        ELSE IF r2.ok THEN r2.rgb
        ELSE <<0, 0, 0>>

(***************************************************************************)
(* Colour tokens of the model.                                             *)
(***************************************************************************)
RECURSIVE CaseVariants(_)
CaseVariants(n) ==
    IF n = <<>> THEN {<<>>}
    ELSE {<<c>> \o rest : c \in {Head(n), UpperChar(Head(n))},
                          rest \in CaseVariants(Tail(n))}

Spaces(k) == [i \in 1..k |-> " "]
Padded(S) == {Spaces(l) \o s \o Spaces(r) : l \in 0..MaxPad, r \in 0..MaxPad, s \in S}

RegistryEntries == UNION {{DefaultCOLORS[g][i] : i \in 1..Len(DefaultCOLORS[g])} :
                            g \in 1..Len(DefaultCOLORS)}
RegistryNames == {e[1] : e \in RegistryEntries}

\* every spelling of a registry name up to letter case and surrounding spaces
RegistryTokens == Padded(UNION {CaseVariants(n) : n \in RegistryNames})

LiteralTokens == Padded({
    <<>>,
    <<"#","f","f","f">>,
    <<"#","F","F","A","A","3","3">>,
    <<"#","1","2","3","4">>,
    <<"#","1","1","2","2","3","3","4","4">>,
    <<"#","g","g","g">>,
    <<"#","1","2">>,
    <<"O","l","i","v","e">>,
    <<"n","o","p","e">> })

ColorTokens == RegistryTokens \cup LiteralTokens

Defaults == { <<"#","0","0","0","0","0","0">>,
              <<"#","F","F","F","F","F","F">>,
              <<"n","o","p","e">> }

(***************************************************************************)
(* The values of the variables a specification does not use.               *)
(***************************************************************************)
ColorIdle == val = <<>> /\ default = <<>> /\ rgb = <<>>
WrapIdle == text = <<>> /\ font = [narrow |-> 0, wide |-> 0, space |-> 0]
            /\ max_width = 0 /\ lines = <<>>
NoThumb == [placeholder |-> FALSE, px |-> <<0, 0, 0, 0>>]
NoGauge == [x |-> 0, y |-> 0, alpha |-> 0, radius |-> 0, percent |-> 0,
            start |-> 0, end_angle |-> 0]
CallIdle == SESSIONS = <<>> /\ returned = <<>> /\ update = <<>>
RenderIdle == FONTS = <<>> /\ assets = {} /\ data = <<>> /\ canvas = <<>>
              /\ layers = <<>> /\ gauge = NoGauge /\ thumb = NoThumb

(***************************************************************************)
(* SpecColor: one call of parse_color on a token and a default.            *)
(***************************************************************************)
InitColor ==
    /\ pc = "parse_color"
    /\ raised = "none"
    /\ CallIdle
    /\ COLORS = DefaultCOLORS
    /\ val \in ColorTokens
    /\ default \in Defaults
    /\ rgb = <<>>
    /\ WrapIdle
    /\ RenderIdle

ParseColorCall ==
    /\ pc = "parse_color"
    /\ rgb' = parse_color(val, default)
    /\ pc' = "returned"
    /\ UNCHANGED <<raised, COLORS, callVars, val, default, wrapVars, renderVars>>

NextColor == ParseColorCall

SpecColor == InitColor /\ [][NextColor]_vars

\* the three-way fallback of parse_color, written from its contract: the token
\* after the registry substitution, else the default, else black
Resolved(t) ==
    LET t1 == strip(IF t = <<>> THEN default ELSE t)
    IN  IF \E e \in RegistryEntries : e[1] = lower(t1)
        THEN (CHOOSE e \in RegistryEntries : e[1] = lower(t1))[2]
        ELSE t1

\* C5: parse_color never raises and returns exactly three channel values in
\* 0..255 for every token: the registry/literal parse of the token if that
\* succeeds, otherwise the literal parse of the default, otherwise (0,0,0).
C5_ParseColorReturnsTriplet ==
    pc = "returned" =>
        /\ raised = "none"
        /\ Len(rgb) = 3
        /\ \A i \in 1..Len(rgb) : rgb[i] \in 0..255
        /\ rgb = IF getrgb(Resolved(val)).ok THEN getrgb(Resolved(val)).rgb
                 ELSE IF getrgb(default).ok THEN getrgb(default).rgb
                 ELSE <<0, 0, 0>>

\* t spells the name n up to letter case and surrounding white space
SameUpToCaseAndSpace(t, n) ==
    \E l \in 0..Len(t) :
        /\ Len(t) >= l + Len(n)
        /\ \A i \in 1..l : t[i] = " "
        /\ \A i \in 1..Len(n) : t[l + i] \in {n[i], UpperChar(n[i])}
        /\ \A i \in (l + Len(n) + 1)..Len(t) : t[i] = " "

RECURSIVE split_loop(_, _, _)
split_loop(s, cur, acc) ==
    IF s = <<>> THEN (IF cur # <<>> THEN Append(acc, cur) ELSE acc)
    ELSE IF IsSpace(Head(s))
         THEN split_loop(Tail(s), <<>>, IF cur # <<>> THEN Append(acc, cur) ELSE acc)
         ELSE split_loop(Tail(s), Append(cur, Head(s)), acc)
split(s) == split_loop(s, <<>>, <<>>)

\* draw.textsize(s, font)[0]: the sum of the advance widths of the characters.
\* A face gives the advance of a narrow letter, a wide letter and the space.
Advance(c, f) == IF c = " " THEN f.space ELSE IF c = "W" THEN f.wide ELSE f.narrow
RECURSIVE textsize(_, _)
textsize(s, f) == IF s = <<>> THEN 0 ELSE Advance(Head(s), f) + textsize(Tail(s), f)

\* line 187: test = (line + " " + w).strip()
candidate(line, w) == strip(line \o <<" ">> \o w)

\* a bug that keeps the rejected candidate as the new line
overflow_line_keeps_candidate(line, w) == candidate(line, w)

\* line 194: the word that did not fit starts the next line
overflow_line(line, w) == w

\* a bug that forgets to commit the finished line
commit_forgotten(ls, line) == ls

\* lines 192-193 and 195-196: if line: lines.append(line)
commit(ls, line) == IF line # <<>> THEN Append(ls, line) ELSE ls

RECURSIVE wrap_loop(_, _, _, _, _)
wrap_loop(words, line, ls, f, maxw) ==
    IF words = <<>> THEN commit(ls, line)
    ELSE LET w == Head(words)
             test == candidate(line, w)
         IN  IF textsize(test, f) <= maxw
             THEN wrap_loop(Tail(words), test, ls, f, maxw)
             ELSE wrap_loop(Tail(words), overflow_line(line, w), commit(ls, line), f, maxw)

word_wrap(t, f, maxw) == wrap_loop(split(t), <<>>, <<>>, f, maxw)

\* texts over a narrow letter, a wide letter and the space
RECURSIVE TextsOfLen(_)
TextsOfLen(n) == IF n = 0 THEN {<<>>}
                 ELSE {Append(t, c) : t \in TextsOfLen(n - 1), c \in {"i", "W", " "}}
Texts == UNION {TextsOfLen(n) : n \in 0..MaxTextLen}

FontFaces == { [narrow |-> 1, wide |-> 2, space |-> 1],
               [narrow |-> 1, wide |-> 3, space |-> 0],
               [narrow |-> 2, wide |-> 3, space |-> 2] }

(***************************************************************************)
(* SpecWrap: one call of word_wrap.                                        *)
(***************************************************************************)
InitWrap ==
    /\ pc = "word_wrap"
    /\ raised = "none"
    /\ CallIdle
    /\ COLORS = DefaultCOLORS
    /\ ColorIdle
    /\ text \in Texts
    /\ font \in FontFaces
    /\ max_width \in 0..MaxWidth
    /\ lines = <<>>
    /\ RenderIdle

WordWrapCall ==
    /\ pc = "word_wrap"
    /\ lines' = word_wrap(text, font, max_width)
    /\ pc' = "wrapped"
    /\ UNCHANGED <<raised, COLORS, callVars, colorVars, text, font, max_width, renderVars>>

NextWrap == WordWrapCall

SpecWrap == InitWrap /\ [][NextWrap]_vars

HasNoSpace(s) == \A i \in 1..Len(s) : s[i] # " "

\* C9: every line returned by word_wrap has measured width <= max_width, except
\* a line that is one single word which alone is wider than max_width.
C9_LinesFitUnlessSingleWideWord ==
    pc = "wrapped" =>
        \A i \in 1..Len(lines) :
            \/ textsize(lines[i], font) <= max_width
            \/ HasNoSpace(lines[i]) /\ lines[i] # <<>>

\* a text is wrapped into two lines, the second a single word wider than the limit
C9_Witness ==
    /\ pc = "wrapped"
    /\ Len(lines) = 2
    /\ textsize(lines[1], font) <= max_width
    /\ HasNoSpace(lines[2]) /\ textsize(lines[2], font) > max_width
    /\ ~HasNoSpace(lines[1])

\* the lines joined by single spaces
RECURSIVE JoinLines(_)
JoinLines(ls) == IF ls = <<>> THEN <<>>
                 ELSE IF Len(ls) = 1 THEN ls[1]
                 ELSE ls[1] \o <<" ">> \o JoinLines(Tail(ls))

\* the text with its leading and trailing spaces dropped and every run of
\* spaces inside it replaced by one space
RECURSIVE Collapse(_)
Collapse(s) ==
    IF s = <<>> THEN <<>>
    ELSE IF s[1] = " " THEN Collapse(Tail(s))
    ELSE IF Len(s) >= 2 /\ s[2] = " " /\ \E j \in 3..Len(s) : s[j] # " "
         THEN <<s[1], " ">> \o Collapse(Tail(Tail(s)))
         ELSE <<s[1]>> \o Collapse(Tail(s))

\* the first word of a line that starts with a word
FirstWord(s) == IF HasNoSpace(s) THEN s
                ELSE SubSeq(s, 1, (CHOOSE k \in 1..Len(s) :
                                      s[k] = " " /\ \A j \in 1..(k - 1) : s[j] # " ") - 1)

\* C10: word_wrap is order-preserving, lossless and greedy: the words of the
\* lines, read line by line, are the words of the input in order (none split,
\* dropped or duplicated, no empty line), and the first word of every line after
\* the first would not have fitted on the end of the line before it.
C10_WrapLosslessAndGreedy ==
    pc = "wrapped" =>
        /\ JoinLines(lines) = Collapse(text)
        /\ \A i \in 1..Len(lines) :
               lines[i] # <<>> /\ lines[i][1] # " " /\ lines[i][Len(lines[i])] # " "
        /\ \A i \in 2..Len(lines) :
               textsize(lines[i - 1] \o <<" ">> \o FirstWord(lines[i]), font) > max_width

\* three words end up on three lines
C10_Witness ==
    /\ pc = "wrapped"
    /\ Len(lines) = 3
    /\ Len(split(text)) = 3
    /\ Len(text) > Len(JoinLines(lines))

(***************************************************************************)
(* String literals of the source, as character sequences.                  *)
(***************************************************************************)
S_bottom_right == <<"b","o","t","t","o","m","-","r","i","g","h","t">>
S_bottom_left == <<"b","o","t","t","o","m","-","l","e","f","t">>
S_top_right == <<"t","o","p","-","r","i","g","h","t">>
S_top_left == <<"t","o","p","-","l","e","f","t">>
S_solid == <<"s","o","l","i","d">>
S_gradient == <<"g","r","a","d","i","e","n","t">>
S_pattern == <<"p","a","t","t","e","r","n">>
S_image == <<"i","m","a","g","e">>
S_stripes == <<"s","t","r","i","p","e","s">>
S_dots == <<"d","o","t","s">>
S_noise == <<"n","o","i","s","e">>
S_left == <<"l","e","f","t">>
S_right == <<"r","i","g","h","t">>
S_top == <<"t","o","p">>
S_overlay == <<"o","v","e","r","l","a","y">>
S_rounded == <<"r","o","u","n","d","e","d">>
S_shadow == <<"s","h","a","d","o","w">>
S_blur == <<"b","l","u","r">>
S_classic == <<"c","l","a","s","s","i","c">>
S_glass == <<"g","l","a","s","s">>
S_jpg == <<"j","p","g">>
S_Roboto == <<"R","o","b","o","t","o">>
S_Regular == <<"R","e","g","u","l","a","r">>
S_Bold == <<"B","o","l","d">>
S_Italic == <<"I","t","a","l","i","c">>
S_waalords == <<"w","a","a","l","o","r","d","s">>
S_hexFFFFFF == <<"#","F","F","F","F","F","F">>
S_hex000000 == <<"#","0","0","0","0","0","0">>
S_hex808080 == <<"#","8","0","8","0","8","0">>
S_hex111111 == <<"#","1","1","1","1","1","1">>
S_hex222222 == <<"#","2","2","2","2","2","2">>
S_0 == <<"0">>
\* values no list of the source holds
S_center == <<"c","e","n","t","e","r">>
S_video == <<"v","i","d","e","o">>
S_zigzag == <<"z","i","g","z","a","g">>
S_red == <<"r","e","d">>
S_hex102030 == <<"#","1","0","2","0","3","0">>
S_nope == <<"n","o","p","e">>
S_hex11223344 == <<"#","1","1","2","2","3","3","4","4">>
S_abc == <<"a","b","c">>

(***************************************************************************)
(* Python values.  A dict is a record whose fields are the keys present.   *)
(* A value handed to int() is tagged with its type: [int |-> n],           *)
(* [str |-> s] or [none |-> TRUE].                                         *)
(***************************************************************************)
\* dict.get(key, dflt)
Get(d, key, dflt) == IF key \in DOMAIN d THEN d[key] ELSE dflt

\* dict.update / a dict literal overridden key by key
Merge(d, o) == [k \in (DOMAIN d) \cup (DOMAIN o) |-> IF k \in DOMAIN o THEN o[k] ELSE d[k]]

PyInt(n) == [int |-> n]
PyStr(s) == [str |-> s]
PyNone == [none |-> TRUE]

Digits == <<"0","1","2","3","4","5","6","7","8","9">>
IsDigit(c) == IndexIn(c, Digits) > 0
RECURSIVE DigitsValue(_)
DigitsValue(s) == IF s = <<>> THEN 0
                  ELSE 10 * DigitsValue(SubSeq(s, 1, Len(s) - 1)) + (IndexIn(s[Len(s)], Digits) - 1)

\* The largest value of a C int.  A Python int is unbounded: one beyond the
\* range of a C int is kept as its sign times INT_MAX and marked big.
INT_MAX == 2147483647
PyBig(sign) == [int |-> sign * INT_MAX, big |-> TRUE]

RECURSIVE StripZeros(_)
StripZeros(ds) == IF Len(ds) > 1 /\ ds[1] = "0" THEN StripZeros(Tail(ds)) ELSE ds

\* a <= b for two digit strings of the same length
RECURSIVE DigitsLeq(_, _)
DigitsLeq(a, b) ==
    IF a = <<>> THEN TRUE
    ELSE IF IndexIn(a[1], Digits) < IndexIn(b[1], Digits) THEN TRUE
    ELSE IF IndexIn(a[1], Digits) > IndexIn(b[1], Digits) THEN FALSE
    ELSE DigitsLeq(Tail(a), Tail(b))

\* the digit string is at most INT_MAX
AtMostIntMax(z) ==
    \/ Len(z) < 10
    \/ Len(z) = 10 /\ DigitsLeq(z, <<"2","1","4","7","4","8","3","6","4","7">>)

\* int(s) for a str: white space stripped, an optional sign, then digits
int_of_str(s) ==
    LET t == strip(s)
        signed == t # <<>> /\ t[1] \in {"+", "-"}
        neg == signed /\ t[1] = "-"
        ds == IF signed THEN Tail(t) ELSE t
        z == StripZeros(ds)
    IN  IF ds # <<>> /\ \A i \in 1..Len(ds) : IsDigit(ds[i])
        THEN IF AtMostIntMax(z)
             THEN [ok |-> TRUE, v |-> IF neg THEN 0 - DigitsValue(z) ELSE DigitsValue(z),
                   exc |-> "none", big |-> FALSE]
             ELSE IF neg /\ z = <<"2","1","4","7","4","8","3","6","4","8">>
             THEN [ok |-> TRUE, v |-> (0 - INT_MAX) - 1, exc |-> "none", big |-> FALSE]
             ELSE [ok |-> TRUE, v |-> IF neg THEN 0 - INT_MAX ELSE INT_MAX,
                   exc |-> "none", big |-> TRUE]
        ELSE [ok |-> FALSE, v |-> 0, exc |-> "ValueError", big |-> FALSE]

\* int(x): an int is returned as it is, a str is parsed, None is a TypeError
int(x) ==
    IF "int" \in DOMAIN x
    THEN [ok |-> TRUE, v |-> x.int, exc |-> "none", big |-> "big" \in DOMAIN x]
    ELSE IF "str" \in DOMAIN x THEN int_of_str(x.str)
    ELSE [ok |-> FALSE, v |-> 0, exc |-> "TypeError", big |-> FALSE]

\* the Python int that int() returned, as a value of a dict
PyIntOf(n) == IF n.big THEN PyBig(IF n.v < 0 THEN -1 ELSE 1) ELSE PyInt(n.v)

Max(a, b) == IF a >= b THEN a ELSE b
Min(a, b) == IF a <= b THEN a ELSE b

\* `x in list`
InList(x, l) == \E i \in 1..Len(l) : l[i] = x

(***************************************************************************)
(* Images.  A layer is sampled at the points of SamplePoints: it is the    *)
(* sequence of the RGBA pixels at these points.  Image bytes are           *)
(* [garbage |-> TRUE] (no decoder identifies them), [empty |-> TRUE] (a    *)
(* bytearray of length 0) or [image |-> rgba] (an image of one colour).    *)
(***************************************************************************)
CanvasW == 1080
CanvasH == 1920

SamplePoints == << <<0, 0>>, <<7, 0>>, <<3, 4>>, <<30, 20>>, <<100, 30>>,
                   <<540, 960>>, <<1079, 1919>> >>

Uniform(px) == [i \in 1..Len(SamplePoints) |-> px]

\* Image.new("RGB", size, color).convert("RGBA"): three channels, opaque
Opaque(c) == <<c[1], c[2], c[3], 255>>

\* one pixel of Image.alpha_composite(dst, src): src over dst (Pillow's
\* AlphaComposite.c, 7 bits of precision)
ShiftForDiv255(a) == ((a \div 256) + a) \div 256
PixelOver(dst, src) ==
    IF src[4] = 0 THEN dst
    ELSE LET blend == dst[4] * (255 - src[4])
             outa255 == src[4] * 255 + blend
             coef1 == (src[4] * 255 * 255 * 128) \div outa255
             coef2 == 255 * 128 - coef1
             ch(i) == ShiftForDiv255(src[i] * coef1 + dst[i] * coef2 + 128 * 128) \div 128
         IN  <<ch(1), ch(2), ch(3), ShiftForDiv255(outa255 + 128)>>

\* Image.alpha_composite(im1, im2): im2 is composited over im1
alpha_composite(im1, im2) == [i \in 1..Len(im1) |-> PixelOver(im1[i], im2[i])]

\* Image.open(io.BytesIO(b)): the decoded image, or UnidentifiedImageError
Image_open(b) == IF "image" \in DOMAIN b
                 THEN [ok |-> TRUE, px |-> b.image]
                 ELSE [ok |-> FALSE, px |-> <<0, 0, 0, 0>>]

\* truth value of a bytes object (None and b"" are false)
Truthy(b) == "image" \in DOMAIN b \/ "garbage" \in DOMAIN b

(***************************************************************************)
(* draw_background (src/bot.py:213-266): the layer's pixel at (x, y).      *)
(***************************************************************************)
\* line 231-233: int(c1*(1 - y/h) + c2*(y/h)), on exact rationals
gradient_channel(a, b, y, h) == (a * (h - y) + b * y) \div h

\* lines 244-246: ellipse [x0, y0, x0+12, y0+12] on a 48-pixel grid
InDot(x, y) == LET dx == (x % 48) - 6
                   dy == (y % 48) - 6
               IN  dx * dx + dy * dy <= 36

\* a bug that makes the fallback layer opaque black
OpaqueBlack == <<0, 0, 0, 255>>

\* line 266: Image.new("RGBA", (w, h), (0, 0, 0, 0))
Transparent == <<0, 0, 0, 0>>

\* the variant that is drawn and its resolved colours (lines 215-239, 258-264)
background_variant(d) ==
    LET btype == Get(d, "background_type", S_solid)
    IN  IF btype = S_solid
        THEN [kind |-> "solid",
              c1 |-> parse_color(Get(d, "background_color", S_hexFFFFFF), S_hex000000),
              c2 |-> <<0, 0, 0>>]
        ELSE IF btype = S_gradient
        THEN LET colors == Get(d, "background_colors", <<S_hex000000, S_hexFFFFFF>>)
                 good == Len(colors) >= 2
             IN  [kind |-> "gradient",
                  c1 |-> IF good THEN parse_color(colors[1], S_hex000000) ELSE <<0, 0, 0>>,
                  c2 |-> IF good THEN parse_color(colors[2], S_hex000000)
                         ELSE <<255, 255, 255>>]
        ELSE IF btype = S_pattern
        THEN LET style == Get(d, "pattern_style", S_stripes)
             IN  [kind |-> IF style = S_dots THEN "dots"
                           ELSE IF style = S_noise THEN "noise" ELSE "stripes",
                  c1 |-> parse_color(Get(d, "pattern_bg", S_hex111111), S_hex000000),
                  c2 |-> parse_color(Get(d, "pattern_fg", S_hex222222), S_hex000000)]
        ELSE IF btype = S_image /\ Truthy(Get(d, "background_image", PyNone))
                /\ Image_open(d.background_image).ok
        THEN [kind |-> "image", c1 |-> Image_open(d.background_image).px, c2 |-> <<0, 0, 0>>]
        ELSE [kind |-> "transparent", c1 |-> Transparent, c2 |-> <<0, 0, 0>>]

\* the layer's pixel at (x, y)
background_pixel(v, x, y) ==
    IF v.kind = "solid" THEN Opaque(v.c1)
    ELSE IF v.kind = "gradient"
    THEN Opaque([i \in 1..3 |-> gradient_channel(v.c1[i], v.c2[i], y, CanvasH)])
    ELSE IF v.kind = "dots" THEN Opaque(IF InDot(x, y) THEN v.c2 ELSE v.c1)
    ELSE IF v.kind = "noise" THEN Opaque(IF (x + y) % 7 = 0 THEN v.c2 ELSE v.c1)
    ELSE IF v.kind = "stripes" THEN Opaque(IF y % 24 <= 12 THEN v.c2 ELSE v.c1)
    ELSE v.c1

draw_background(d) ==
    LET v == background_variant(d)
    IN  [i \in 1..Len(SamplePoints) |->
            background_pixel(v, SamplePoints[i][1], SamplePoints[i][2])]

(***************************************************************************)
(* The font registry and get_font (src/bot.py:57-68, 173-179).             *)
(***************************************************************************)
File_Regular == <<"R","o","b","o","t","o","-","R","e","g","u","l","a","r",".","t","t","f">>
File_Bold == <<"R","o","b","o","t","o","-","B","o","l","d",".","t","t","f">>
File_Italic == <<"R","o","b","o","t","o","-","I","t","a","l","i","c",".","t","t","f">>

DefaultFONTS == << <<S_Roboto, << <<S_Regular, File_Regular>>,
                                  <<S_Bold, File_Bold>>,
                                  <<S_Italic, File_Italic>> >> >> >>

\* The face get_font returns: the TrueType face of the registry's file at the
\* given size, or on any failure ImageFont.load_default(), the built-in bitmap
\* face, which has no size attribute.
get_font(family, style, size) ==
    IF /\ InGroup(family, FONTS)
       /\ InGroup(style, GroupGet(family, FONTS))
       /\ GroupGet(style, GroupGet(family, FONTS)) \in assets
       /\ size > 0
    THEN [truetype |-> TRUE, size |-> size]
    ELSE [truetype |-> FALSE, size |-> 0]

\* the advance widths with which a face measures text
FaceOf(f) == IF f.truetype
             THEN [narrow |-> f.size \div 2, wide |-> f.size, space |-> f.size \div 4]
             ELSE [narrow |-> 6, wide |-> 6, space |-> 6]

(***************************************************************************)
(* The defaults of a session (src/bot.py:125-151).                         *)
(***************************************************************************)
DefaultSession == [
    badges |-> <<>>,
    template |-> S_classic,
    background_type |-> S_solid,
    background_color |-> S_hexFFFFFF,
    layout |-> S_left,
    effects |-> <<>>,
    export |-> S_jpg,
    font |-> <<S_Roboto, S_Regular>>,
    title_size |-> 50,
    author_size |-> 35,
    synopsis_size |-> 30,
    branding_size |-> 25,
    title_color |-> S_hex000000,
    author_color |-> S_hex000000,
    synopsis_color |-> S_hex000000,
    branding_color |-> S_hex808080,
    branding |-> S_waalords,
    percentage |-> PyInt(0),
    chapters |-> S_0,
    percentage_box_position |-> S_bottom_right,
    percentage_box_bg |-> S_hexFFFFFF,
    percentage_box_alpha |-> PyInt(220),
    percentage_box_border |-> S_hex000000,
    percentage_box_radius |-> PyInt(30),
    percentage_box_chapters |-> TRUE ]

(***************************************************************************)
(* Drawing.  Every drawing call returns [raised, ops]: the exception that  *)
(* left it ("none" if it returned) and the layers it drew before, each     *)
(* with its top-left corner on the canvas and its size.                    *)
(***************************************************************************)
Op(name, x, y, w, h) == [layer |-> name, x |-> x, y |-> y, w |-> w, h |-> h, alpha |-> 255]

\* a layer filled with an ink of the given alpha
OpA(name, x, y, w, h, a) == [layer |-> name, x |-> x, y |-> y, w |-> w, h |-> h, alpha |-> a]

\* Pillow's ink of a colour tuple saturates each channel to 0..255 (CLIP8)
CLIP8(a) == IF a < 0 THEN 0 ELSE IF a > 255 THEN 255 ELSE a

\* fill=(*bg, alpha): the ink of an RGBA image takes at most four channels,
\* each a C int (a Python int beyond that range is an OverflowError)
fill_accepted(bg) == Len(bg) + 1 <= 4

(***************************************************************************)
(* draw_thumbnail (src/bot.py:269-303).                                    *)
(***************************************************************************)
thumb_size(layout) ==
    IF layout = S_top THEN <<CanvasW - 180, ((CanvasW - 180) * 66) \div 100>>
    ELSE IF layout = S_right THEN <<520, 780>>
    ELSE IF layout = S_overlay THEN <<CanvasW, CanvasH>>
    ELSE <<520, 780>>

\* a bug that forgets the 80-pixel inset of the right layout
thumb_pos_right_without_inset(layout) ==
    IF layout = S_top THEN <<90, 80>>
    ELSE IF layout = S_right THEN <<CanvasW - thumb_size(layout)[1], 360>>
    ELSE IF layout = S_overlay THEN <<0, 0>>
    ELSE <<80, 360>>

thumb_pos(layout) ==
    IF layout = S_top THEN <<90, 80>>
    ELSE IF layout = S_right THEN <<CanvasW - thumb_size(layout)[1] - 80, 360>>
    ELSE IF layout = S_overlay THEN <<0, 0>>
    ELSE <<80, 360>>

\* canvas.alpha_composite(im, dest): the part of the canvas that is pasted.
\* The destination may lie outside the canvas (Pillow crops the overlay; the
\* versions that have rounded_rectangle accept a negative destination).
pasted_box(x, y, w, h) ==
    <<Max(0, x), Max(0, y), Min(CanvasW, x + w), Min(CanvasH, y + h)>>

draw_thumbnail(d) ==
    LET layout == Get(d, "layout", S_left)
        effects == Get(d, "effects", <<>>)
        tsize == thumb_size(layout)
        tpos == thumb_pos(layout)
        \* lines 295-299: the layer, pasted at tpos - 10, and the dark rectangle
        \* drawn in it at (10, 10), in canvas coordinates
        shadow == IF InList(S_shadow, effects)
                  THEN <<Op("shadow", tpos[1] - 10, tpos[2] - 10, tsize[1] + 20, tsize[2] + 20),
                         Op("shadow_rectangle", (tpos[1] - 10) + 10, (tpos[2] - 10) + 10,
                            tsize[1], tsize[2])>>
                  ELSE <<>>
    IN  [raised |-> "none",
         ops |-> shadow \o <<Op("thumbnail", tpos[1], tpos[2], tsize[1], tsize[2])>>]

(***************************************************************************)
(* draw_text_blocks (src/bot.py:306-342).                                  *)
(***************************************************************************)
RECURSIVE synopsis_ops(_, _, _, _)
synopsis_ops(ls, k, y, f) ==
    IF k > Len(ls) \/ k > 12 THEN [raised |-> "none", ops |-> <<>>]
    ELSE LET here == Op("synopsis", 60, y, textsize(ls[k], FaceOf(f)), 0)
         IN  IF ~f.truetype
             THEN [raised |-> "AttributeError", ops |-> <<here>>]
             ELSE LET rest == synopsis_ops(ls, k + 1, y + f.size + 8, f)
                  IN  [raised |-> rest.raised, ops |-> <<here>> \o rest.ops]

draw_text_blocks(d) ==
    LET fnt == Get(d, "font", <<S_Roboto, S_Regular>>)
        family == fnt[1]
        style == fnt[2]
        title_font == get_font(family, style, Get(d, "title_size", 50))
        author_font == get_font(family, style, Get(d, "author_size", 35))
        synopsis_font == get_font(family, style, Get(d, "synopsis_size", 30))
        maxw == CanvasW - 120
        ls == word_wrap(Get(d, "synopsis", <<"N","o"," ","s","y","n","o","p","s","i","s"," ",
                                             "p","r","o","v","i","d","e","d",".">>),
                        FaceOf(synopsis_font), maxw)
        syn == synopsis_ops(ls, 1, 200, synopsis_font)
        branding_font == get_font(family, style, Get(d, "branding_size", 25))
        bw == textsize(Get(d, "branding", S_waalords), FaceOf(branding_font))
        head == <<Op("title", 60, 40, 0, 0), Op("author", 60, 120, 0, 0)>>
    IN  IF syn.raised # "none"
        THEN [raised |-> syn.raised, ops |-> head \o syn.ops]
        ELSE [raised |-> "none",
              ops |-> head \o syn.ops \o <<Op("branding", CanvasW - bw - 40, 30, bw, 0)>>]

(***************************************************************************)
(* draw_percentage_box (src/bot.py:345-394).                               *)
(***************************************************************************)
box_w == 420
box_h == 120
margin == 50

\* a bug that forgets the margin at the right and bottom edges
box_origin_without_margin(pos) ==
    IF pos = S_bottom_right THEN <<CanvasW - box_w, CanvasH - box_h>>
    ELSE IF pos = S_bottom_left THEN <<margin, CanvasH - box_h>>
    ELSE IF pos = S_top_right THEN <<CanvasW - box_w, margin>>
    ELSE <<margin, margin>>

box_origin(pos) ==
    IF pos = S_bottom_right THEN <<CanvasW - box_w - margin, CanvasH - box_h - margin>>
    ELSE IF pos = S_bottom_left THEN <<margin, CanvasH - box_h - margin>>
    ELSE IF pos = S_top_right THEN <<CanvasW - box_w - margin, margin>>
    ELSE <<margin, margin>>

\* a bug that forgets the -90 degree start in the end angle
end_angle_without_start(percent) == (360 * percent) \div 100

\* line 380: end_angle = -90 + int(360 * percent / 100)
end_angle(percent) == -90 + (360 * percent) \div 100

\* line 378: max(0, min(100, n))
clamp_percent(n) == Max(0, Min(100, n))

draw_percentage_box(d) ==
    LET pos == Get(d, "percentage_box_position", S_bottom_right)
        xy == box_origin(pos)
        bg == parse_color(Get(d, "percentage_box_bg", S_hexFFFFFF), S_hex000000)
        alpha == int(Get(d, "percentage_box_alpha", PyInt(220)))
        radius == int(Get(d, "percentage_box_radius", PyInt(30)))
        pct == int(Get(d, "percentage", PyInt(0)))
        percent == clamp_percent(pct.v)
        cx == xy[1] + 70
        cy == xy[2] + box_h \div 2
        r == 40
        panel == OpA("percentage_box", xy[1], xy[2], box_w, box_h, CLIP8(alpha.v))
        ring == Op("ring", cx - r, cy - r, 2 * r, 2 * r)
        arc == Op("arc", cx - r, cy - r, 2 * r, 2 * r)
        label == Op("percent_label", cx, cy, 0, 0)
        chap == IF Get(d, "percentage_box_chapters", TRUE)
                THEN <<Op("chapters_label", cx + 70, cy - 15, 0, 0)>> ELSE <<>>
        g == [x |-> xy[1], y |-> xy[2], alpha |-> alpha.v, radius |-> radius.v,
              percent |-> percent, start |-> -90, end_angle |-> end_angle(percent)]
    IN  IF ~alpha.ok THEN [raised |-> alpha.exc, ops |-> <<>>, gauge |-> NoGauge]
        ELSE IF ~radius.ok THEN [raised |-> radius.exc, ops |-> <<>>, gauge |-> NoGauge]
        ELSE IF ~fill_accepted(bg) THEN [raised |-> "TypeError", ops |-> <<>>, gauge |-> NoGauge]
        ELSE IF alpha.big THEN [raised |-> "OverflowError", ops |-> <<>>, gauge |-> NoGauge]
        ELSE IF ~pct.ok THEN [raised |-> pct.exc, ops |-> <<panel, ring>>, gauge |-> NoGauge]
        ELSE [raised |-> "none", ops |-> <<panel, ring, arc, label>> \o chap, gauge |-> g]

(***************************************************************************)
(* draw_badges (src/bot.py:397-436).                                       *)
(***************************************************************************)
Corners == {S_top_left, S_top_right, S_bottom_left, S_bottom_right}

anchors(pos) ==
    IF pos = S_top_left THEN <<50, 50>>
    ELSE IF pos = S_top_right THEN <<CanvasW - 250, 50>>
    ELSE IF pos = S_bottom_left THEN <<50, CanvasH - 150>>
    ELSE <<CanvasW - 250, CanvasH - 150>>

\* anchors.get(pos, anchors["top-left"])
anchors_get(pos) == IF pos \in Corners THEN anchors(pos) ELSE anchors(S_top_left)

\* a bug that keeps one stack for the four corners together
stack_offset_of_all_corners(stacks, pos) ==
    stacks[S_top_left] + stacks[S_top_right] + stacks[S_bottom_left] + stacks[S_bottom_right]

\* line 416: y0 += stacks[pos]
stack_offset(stacks, pos) == stacks[pos]

RECURSIVE badges_loop(_, _, _)
badges_loop(bs, k, stacks) ==
    IF k > Len(bs) \/ k > 5 THEN [raised |-> "none", ops |-> <<>>]
    ELSE LET badge == bs[k]
             pos == Get(badge, "position", S_top_left)
             xy0 == anchors_get(pos)
             bw == int(Get(badge, "width", PyInt(220)))
             bh == int(Get(badge, "height", PyInt(70)))
             bg == parse_color(Get(badge, "bg", S_hexFFFFFF), S_hex000000)
             alpha == int(Get(badge, "alpha", PyInt(220)))
             radius == int(Get(badge, "radius", PyInt(20)))
         IN  IF pos \notin DOMAIN stacks THEN [raised |-> "KeyError", ops |-> <<>>]
             ELSE IF ~bw.ok THEN [raised |-> bw.exc, ops |-> <<>>]
             ELSE IF ~bh.ok THEN [raised |-> bh.exc, ops |-> <<>>]
             ELSE IF ~alpha.ok THEN [raised |-> alpha.exc, ops |-> <<>>]
             ELSE IF ~radius.ok THEN [raised |-> radius.exc, ops |-> <<>>]
             ELSE IF ~fill_accepted(bg) THEN [raised |-> "TypeError", ops |-> <<>>]
             ELSE IF alpha.big THEN [raised |-> "OverflowError", ops |-> <<>>]
             ELSE LET here == OpA("badge", xy0[1], xy0[2] + stack_offset(stacks, pos), bw.v, bh.v,
                                  CLIP8(alpha.v))
                      rest == badges_loop(bs, k + 1, [stacks EXCEPT ![pos] = @ + 80])
                  IN  [raised |-> rest.raised, ops |-> <<here>> \o rest.ops]

\* a bug that keeps the corner stacks from one call to the next
draw_badges_with_kept_stacks(d) ==
    badges_loop(Get(d, "badges", <<>>), 1, [p \in Corners |-> 80 * Len(returned)])

draw_badges(d) == badges_loop(Get(d, "badges", <<>>), 1, [p \in Corners |-> 0])

(***************************************************************************)
(* SpecGauge: the percentage of a RenderSpec, stored by the PERCENTAGE     *)
(* step of the conversation or carried by the RenderSpec as it is, and one *)
(* call of draw_percentage_box on it.                                      *)
(***************************************************************************)
PercentValues ==
    {PyInt(n) : n \in (0 - MaxOver)..(100 + MaxOver)} \cup
    {PyStr(<<"5", "0">>), PyStr(<<" ", "7">>), PyStr(S_abc), PyStr(<<>>), PyNone}

BoxPositions == Corners \cup {S_center}

UserTexts == { <<"5","0">>, <<" ","7"," ">>, <<"-","5">>, <<"2","5","0">>, <<"1","0","0">>,
               <<"0">>, <<"1","2",".","5">>, S_abc, <<>> }

GaugeSpecs == {Merge(DefaultSession, [percentage |-> p, percentage_box_position |-> q]) :
                 p \in PercentValues, q \in BoxPositions}

InitGauge ==
    /\ pc \in {"PERCENTAGE", "draw_percentage_box"}
    /\ raised = "none"
    /\ CallIdle
    /\ COLORS = DefaultCOLORS
    /\ ColorIdle
    /\ WrapIdle
    /\ FONTS = DefaultFONTS
    /\ assets = {File_Regular, File_Bold, File_Italic}
    /\ data \in GaugeSpecs
    /\ canvas = <<>>
    /\ layers = <<>>
    /\ gauge = NoGauge
    /\ thumb = NoThumb

\* the percentage step handler (src/bot.py:607-614) on the message text t
percentage(t) ==
    /\ pc = "PERCENTAGE"
    /\ LET n == int(PyStr(strip(t)))
       IN  data' = [data EXCEPT !.percentage =
                        IF n.ok THEN PyInt(Max(0, Min(100, n.v))) ELSE PyInt(0)]
    /\ pc' = "PERCENTAGE_BOX_POSITION"
    /\ UNCHANGED <<raised, COLORS, callVars, colorVars, wrapVars, FONTS, assets, canvas, layers,
                   gauge, thumb>>

\* draw_percentage_box on the RenderSpec, as it is or as the step left it
DrawPercentageBox ==
    /\ pc \in {"draw_percentage_box", "PERCENTAGE_BOX_POSITION", "PERCENTAGE_BOX_BORDER"}
    /\ LET r == draw_percentage_box(data)
       IN  /\ raised' = r.raised
           /\ layers' = layers \o r.ops
           /\ gauge' = r.gauge
           /\ pc' = IF r.raised = "none" THEN "drawn" ELSE "raised"
    /\ UNCHANGED <<COLORS, callVars, colorVars, wrapVars, FONTS, assets, data, canvas, thumb>>

NextGauge ==
    \/ \E t \in UserTexts : percentage(t)
    \/ DrawPercentageBox

SpecGauge == InitGauge /\ [][NextGauge]_vars

IsIntIn(v, lo, hi) == "int" \in DOMAIN v /\ v.int \in lo..hi

\* C7 as stated: for every integer percentage p in 0..100 the gauge arc starts at
\* -90 degrees and its sweep is exactly 360*p/100 degrees.
C7_SweepIsExactly360pOver100 ==
    (pc = "drawn" /\ IsIntIn(data.percentage, 0, 100)) =>
        /\ gauge.start = -90
        /\ 100 * (gauge.end_angle - gauge.start) = 360 * data.percentage.int

\* C7 as amended: the arc starts at -90 degrees and its sweep is 360*p/100
\* truncated to whole degrees: exactly 360*p/100 when p is a multiple of 5 and
\* less than one degree short otherwise; p = 0 gives a zero sweep and p = 100 a
\* sweep of 360.
C7_SweepIs360pOver100Truncated ==
    (pc = "drawn" /\ IsIntIn(data.percentage, 0, 100)) =>
        LET p == data.percentage.int
            sweep == gauge.end_angle - gauge.start
        IN  /\ gauge.start = -90
            /\ 100 * sweep <= 360 * p
            /\ 360 * p < 100 * (sweep + 1)
            /\ (p % 5 = 0 => 100 * sweep = 360 * p)
            /\ (p = 0 => sweep = 0)
            /\ (p = 100 => sweep = 360)

\* p = 1 draws an arc from -90 to -87 degrees: a sweep of 3, not 3.6
C7_Witness ==
    /\ pc = "drawn"
    /\ IsIntIn(data.percentage, 1, 1)
    /\ gauge.start = -90
    /\ gauge.end_angle = -87

\* C8: the percentage drawn by the gauge and its label is always within
\* [0,100]: for every percentage value a RenderSpec can carry (integers below 0
\* or above 100, and values that are not numeric) draw_percentage_box clamps or
\* defaults it and completes without an error; and after the percentage step of
\* the conversation the session's stored percentage is an integer in [0,100].
C8_PercentageAlwaysWithin0And100 ==
    /\ pc = "PERCENTAGE_BOX_POSITION" => IsIntIn(data.percentage, 0, 100)
    /\ pc \in {"drawn", "raised"} => raised = "none" /\ gauge.percent \in 0..100

\* the part of C8 that the code keeps: whatever the user types at the percentage
\* step, the session then holds an integer in [0,100], and every integer and
\* every numeric string is clamped by the gauge
C8_StoredAndNumericPercentagesAreClamped ==
    /\ pc = "PERCENTAGE_BOX_POSITION" => IsIntIn(data.percentage, 0, 100)
    /\ (pc \in {"drawn", "raised"} /\ int(data.percentage).ok) =>
           raised = "none" /\ gauge.percent \in 0..100

\* C13: the 420x120 panel's top-left corner is (w-470, h-170) for
\* bottom-right, (50, h-170) for bottom-left, (w-470, 50) for top-right and
\* (50, 50) for top-left, on the w x h = 1080x1920 canvas (610, 1750) for
\* bottom-right; the panel lies entirely inside the canvas.
C13_PanelAtCornerInsetByMargin ==
    (pc \in {"drawn", "raised"} /\ Len(layers) >= 1) =>
        LET panel == layers[1]
            pos == data.percentage_box_position
        IN  /\ panel.layer = "percentage_box"
            /\ panel.w = 420 /\ panel.h = 120
            /\ pos = S_bottom_right => panel.x = CanvasW - 470 /\ panel.y = CanvasH - 170
            /\ pos = S_bottom_right => panel.x = 610 /\ panel.y = 1750
            /\ pos = S_bottom_left => panel.x = 50 /\ panel.y = CanvasH - 170
            /\ pos = S_top_right => panel.x = CanvasW - 470 /\ panel.y = 50
            /\ pos = S_top_left => panel.x = 50 /\ panel.y = 50
            /\ panel.x >= 0 /\ panel.y >= 0
            /\ panel.x + panel.w <= CanvasW - 1
            /\ panel.y + panel.h <= CanvasH - 1

\* percentage 50 at bottom-right: the panel at (610, 1750), the arc to 90
C13_Witness ==
    /\ pc = "drawn"
    /\ data.percentage_box_position = S_bottom_right
    /\ data.percentage = PyInt(50)
    /\ layers[1] = OpA("percentage_box", 610, 1750, 420, 120, 220)
    /\ gauge.end_angle = 90

(***************************************************************************)
(* SpecBadges: one call of draw_badges on a badge list.                    *)
(***************************************************************************)
Badge(pos) == [text |-> <<"T","o","p">>, bg |-> S_hexFFFFFF, color |-> S_hex000000,
               alpha |-> PyInt(220), radius |-> PyInt(20), position |-> pos]

\* a badge whose sub-steps have not been answered yet: it has only its text
UnfinishedBadge == [text |-> <<"N","e","w">>]

BadgeKinds == {Badge(S_top_left), Badge(S_bottom_right), Badge(S_center), UnfinishedBadge}

\* badges as the badge steps of the conversation leave them: one per corner
CornerBadges == {Badge(c) : c \in Corners}

BadgeLists == UNION {[1..n -> BadgeKinds] \cup [1..n -> CornerBadges] : n \in 0..MaxBadges}

InitBadges ==
    /\ pc = "draw_badges"
    /\ raised = "none"
    /\ CallIdle
    /\ COLORS = DefaultCOLORS
    /\ ColorIdle
    /\ WrapIdle
    /\ FONTS = DefaultFONTS
    /\ assets = {File_Regular, File_Bold, File_Italic}
    /\ data \in {Merge(DefaultSession, [badges |-> bl]) : bl \in BadgeLists}
    /\ canvas = <<>>
    /\ layers = <<>>
    /\ gauge = NoGauge
    /\ thumb = NoThumb

DrawBadges ==
    /\ pc \in {"draw_badges", "BADGE_RADIUS"}
    /\ LET r == draw_badges(data)
       IN  /\ raised' = r.raised
           /\ layers' = layers \o r.ops
           /\ pc' = IF r.raised = "none" THEN "drawn" ELSE "raised"
    /\ UNCHANGED <<COLORS, callVars, colorVars, wrapVars, FONTS, assets, data, canvas, gauge, thumb>>

NextBadges == DrawBadges

SpecBadges == InitBadges /\ [][NextBadges]_vars

\* the corner a badge is meant to go to: its position if that is a corner name,
\* top-left if it has none or one that names no corner
IntendedCorner(b) == IF "position" \in DOMAIN b /\ b.position \in Corners
                     THEN b.position ELSE S_top_left

EarlierInCorner(bs, k, c) == Cardinality({j \in 1..(k - 1) : IntendedCorner(bs[j]) = c})

\* C4: draw_badges completes for every badge list: a badge whose position is
\* missing or is not one of the four corner names is drawn at the top-left
\* anchor, stacked with the other top-left badges, instead of aborting.
C4_BadPositionFallsBackToTopLeft ==
    pc \in {"drawn", "raised"} =>
        /\ raised = "none"
        /\ Len(layers) = Min(5, Len(data.badges))
        /\ \A k \in 1..Len(layers) :
               IntendedCorner(data.badges[k]) = S_top_left =>
                   /\ layers[k].x = 50
                   /\ layers[k].y = 50 + 80 * EarlierInCorner(data.badges, k, S_top_left)

\* the part of C4 that the code keeps: a badge with no position at all is drawn
\* at the top-left anchor and stacked with the top-left badges
C4_MissingPositionFallsBackToTopLeft ==
    (pc = "drawn") =>
        /\ Len(layers) = Min(5, Len(data.badges))
        /\ \A k \in 1..Len(layers) :
               IntendedCorner(data.badges[k]) = S_top_left =>
                   /\ layers[k].x = 50
                   /\ layers[k].y = 50 + 80 * EarlierInCorner(data.badges, k, S_top_left)

\* C11: every badge that draw_badges draws sits at the anchor x of its corner
\* and at y = the corner's anchor y + 80 * (the number of badges earlier in the
\* list that went to the same corner), whatever the other three corners hold.
C11_BadgeStacksPerCornerWithPitch80 ==
    pc \in {"drawn", "raised"} =>
        \A k \in 1..Len(layers) :
            LET c == IntendedCorner(data.badges[k])
            IN  /\ layers[k].x = anchors(c)[1]
                /\ layers[k].y = anchors(c)[2] + 80 * EarlierInCorner(data.badges, k, c)

\* five badges over the four corners, top-left twice: the second top-left
\* badge, fifth in the list, is one pitch below the top-left anchor although
\* three badges of other corners were drawn between the two
C11_Witness ==
    /\ pc = "drawn"
    /\ Len(layers) = 5
    /\ data.badges = <<Badge(S_top_left), Badge(S_top_right), Badge(S_bottom_left),
                       Badge(S_bottom_right), Badge(S_top_left)>>
    /\ layers[5].x = 50 /\ layers[5].y = 130
    /\ layers[4].x = CanvasW - 250 /\ layers[4].y = CanvasH - 150

\* the first five badges of the list all name a corner or have no position
FirstFiveWellPlaced ==
    \A k \in 1..Min(5, Len(data.badges)) :
        "position" \in DOMAIN data.badges[k] => data.badges[k].position \in Corners

\* C12: for a badge list of any length draw_badges returns without an error
\* having drawn exactly the first min(5, length) badges in list order; six
\* top-left badges give five badges at y-offsets 0, 80, 160, 240, 320 from the
\* top-left anchor.
C12_DrawsExactlyFirstFiveBadges ==
    pc \in {"drawn", "raised"} =>
        /\ raised = "none"
        /\ Len(layers) = Min(5, Len(data.badges))
        /\ \A k \in 1..Len(layers) :
               /\ layers[k].w = int(Get(data.badges[k], "width", PyInt(220))).v
               /\ layers[k].x = anchors(IntendedCorner(data.badges[k]))[1]
        /\ (Len(data.badges) = 6 /\ \A k \in 1..6 : IntendedCorner(data.badges[k]) = S_top_left) =>
               \A k \in 1..5 : layers[k].y = 50 + 80 * (k - 1)

\* the part of C12 that the code keeps: when the first five badges name a
\* corner (or none), exactly they are drawn, whatever the rest of the list is
FirstFiveDrawnWhenWellPlaced ==
    (pc \in {"drawn", "raised"} /\ FirstFiveWellPlaced) =>
        /\ raised = "none"
        /\ Len(layers) = Min(5, Len(data.badges))
        /\ (Len(data.badges) = 6 /\ \A k \in 1..6 : IntendedCorner(data.badges[k]) = S_top_left) =>
               \A k \in 1..5 : layers[k].y = 50 + 80 * (k - 1)

\* six top-left badges: five drawn, the sixth ignored
SixTopLeftBadgesDrawFive ==
    /\ pc = "drawn"
    /\ Len(data.badges) = 6
    /\ \A k \in 1..6 : data.badges[k] = Badge(S_top_left)
    /\ Len(layers) = 5
    /\ layers[5].y = 370

(***************************************************************************)
(* SpecRender: one call of render_template (src/bot.py:443-480), stage by  *)
(* stage.  pc names the stage that runs next; an exception leaves the call *)
(* at once (pc = "raised"), the stages after it do not run.                *)
(***************************************************************************)
OpaqueImage == [image |-> <<10, 20, 30, 255>>]
TranslucentImage == [image |-> <<10, 20, 30, 128>>]
GarbageBytes == [garbage |-> TRUE]
EmptyBytes == [empty |-> TRUE]

BackgroundCases == {
    [background_type |-> S_solid],
    [background_type |-> S_solid, background_color |-> S_red],
    [background_type |-> S_solid, background_color |-> S_nope],
    [background_type |-> S_gradient],
    [background_type |-> S_gradient, background_colors |-> <<S_red, S_hex102030>>],
    [background_type |-> S_gradient, background_colors |-> <<S_red>>],
    [background_type |-> S_pattern],
    [background_type |-> S_pattern, pattern_style |-> S_dots,
     pattern_bg |-> S_red, pattern_fg |-> S_hex102030],
    [background_type |-> S_pattern, pattern_style |-> S_noise,
     pattern_bg |-> S_hex111111, pattern_fg |-> S_hex222222],
    [background_type |-> S_pattern, pattern_style |-> S_zigzag,
     pattern_bg |-> S_hex111111, pattern_fg |-> S_hex222222],
    [background_type |-> S_image, background_image |-> OpaqueImage],
    [background_type |-> S_image, background_image |-> TranslucentImage],
    [background_type |-> S_image, background_image |-> GarbageBytes],
    [background_type |-> S_image],
    [background_type |-> S_video] }

Layouts == {S_left, S_right, S_top, S_overlay}

EffectLists == { <<>>, <<S_rounded>>, <<S_shadow>>, <<S_blur>>,
                 <<S_rounded, S_shadow>>, <<S_rounded, S_blur>>, <<S_shadow, S_blur>>,
                 <<S_rounded, S_shadow, S_blur>> }

LayoutCases == {[layout |-> l, effects |-> e] : l \in Layouts \cup {S_center}, e \in EffectLists}

\* no thumbnail key, an empty bytearray, bytes no decoder identifies, an image
ThumbnailCases == { [template |-> S_classic],
                    [template |-> S_classic, thumbnail |-> EmptyBytes],
                    [template |-> S_classic, thumbnail |-> GarbageBytes],
                    [template |-> S_classic, thumbnail |-> OpaqueImage],
                    [template |-> S_glass, thumbnail |-> OpaqueImage] }

\* the other fields: the defaults, a percentage that is no number, a badge
\* with a position that names no corner, a colour with an alpha channel
OtherCases == { [percentage |-> PyInt(50)],
                [percentage |-> PyStr(S_abc)],
                [badges |-> <<Badge(S_top_left), Badge(S_center)>>],
                [badges |-> <<Badge(S_top_left), Badge(S_top_left)>>,
                 effects |-> <<S_shadow, S_blur>>, percentage |-> PyInt(50)],
                [percentage_box_bg |-> S_hex11223344] }

RenderSpecs ==
    {Merge(Merge(Merge(DefaultSession, b), l), t) :
        b \in BackgroundCases, l \in LayoutCases, t \in ThumbnailCases}
    \cup {Merge(Merge(DefaultSession, o), t) : o \in OtherCases, t \in ThumbnailCases}

InitRender ==
    /\ pc = "render_template"
    /\ raised = "none"
    /\ COLORS = DefaultCOLORS
    /\ ColorIdle
    /\ WrapIdle
    /\ FONTS = DefaultFONTS
    /\ assets \in {{File_Regular, File_Bold, File_Italic}, {}}
    /\ data \in RenderSpecs
    /\ canvas = <<>>
    /\ layers = <<>>
    /\ gauge = NoGauge
    /\ thumb = NoThumb
    /\ SESSIONS = <<data>>
    /\ returned = <<>>
    /\ update = <<>>

White == <<255, 255, 255, 255>>

\* a bug that blurs the canvas after the thumbnail is placed
stage_after_with_late_blur(stage) ==
    CASE stage = "render_template" -> "thumbnail"
      [] stage = "thumbnail" -> "blur"
      [] stage = "blur" -> "glass"
      [] stage = "glass" -> "text"
      [] stage = "text" -> "percentage_box"
      [] stage = "percentage_box" -> "badges"
      [] OTHER -> "done"

\* the order of the statements of render_template (lines 445-480): the stage
\* that runs when the given one has returned
stage_after(stage) ==
    CASE stage = "render_template" -> "blur"
      [] stage = "blur" -> "thumbnail"
      [] stage = "thumbnail" -> "glass"
      [] stage = "glass" -> "text"
      [] stage = "text" -> "percentage_box"
      [] stage = "percentage_box" -> "badges"
      [] OTHER -> "done"

\* a bug-free order of the arguments: the white base under the background
composite_background_over_base(bg, base) == alpha_composite(base, bg)

\* line 449: canvas = Image.alpha_composite(bg, canvas)
composite_background(bg, base) == alpha_composite(bg, base)

\* lines 445-449: the white base and the background layer
RenderBackground ==
    /\ pc = "render_template"
    /\ canvas' = composite_background(draw_background(data), Uniform(White))
    /\ layers' = <<Op("background", 0, 0, CanvasW, CanvasH)>>
    /\ pc' = stage_after("render_template")
    /\ UNCHANGED <<raised, COLORS, callVars, colorVars, wrapVars, FONTS, assets, data, gauge, thumb>>

\* lines 452-453: the whole-canvas blur.  The blurred pixel values are not
\* computed: the sampled canvas is kept and the blur is recorded as a layer.
RenderBlur ==
    /\ pc = "blur"
    /\ layers' = IF InList(S_blur, Get(data, "effects", <<>>))
                 THEN Append(layers, Op("blur", 0, 0, CanvasW, CanvasH))
                 ELSE layers
    /\ pc' = stage_after("blur")
    /\ UNCHANGED <<raised, COLORS, callVars, colorVars, wrapVars, FONTS, assets, data, canvas,
                   gauge, thumb>>

Placeholder == [placeholder |-> TRUE, px |-> <<200, 200, 200, 255>>]

\* lines 456-462: the thumbnail is decoded, or replaced by the gray placeholder
\* when there are no bytes, and placed by draw_thumbnail
RenderThumbnail ==
    /\ pc = "thumbnail"
    /\ LET thumb_bytes == Get(data, "thumbnail", PyNone)
           opened == Image_open(thumb_bytes)
           r == draw_thumbnail(data)
       IN  IF Truthy(thumb_bytes) /\ ~opened.ok
           THEN /\ raised' = "UnidentifiedImageError"
                /\ pc' = "raised"
                /\ UNCHANGED <<layers, thumb>>
           ELSE /\ thumb' = IF Truthy(thumb_bytes)
                            THEN [placeholder |-> FALSE, px |-> opened.px]
                            ELSE Placeholder
                /\ layers' = layers \o r.ops
                /\ pc' = stage_after("thumbnail")
                /\ UNCHANGED raised
    /\ UNCHANGED <<COLORS, callVars, colorVars, wrapVars, FONTS, assets, data, canvas, gauge>>

\* lines 465-469: the translucent panel of the glass template
RenderGlass ==
    /\ pc = "glass"
    /\ layers' = IF Get(data, "template", PyNone) = S_glass
                 THEN Append(layers, Op("glass", 40, 320, CanvasW - 80, CanvasH - 360))
                 ELSE layers
    /\ pc' = stage_after("glass")
    /\ UNCHANGED <<raised, COLORS, callVars, colorVars, wrapVars, FONTS, assets, data, canvas,
                   gauge, thumb>>

\* line 472
RenderText ==
    /\ pc = "text"
    /\ LET r == draw_text_blocks(data)
       IN  /\ raised' = r.raised
           /\ layers' = layers \o r.ops
           /\ pc' = IF r.raised = "none" THEN stage_after("text") ELSE "raised"
    /\ UNCHANGED <<COLORS, callVars, colorVars, wrapVars, FONTS, assets, data, canvas, gauge, thumb>>

\* line 475
RenderPercentageBox ==
    /\ pc = "percentage_box"
    /\ LET r == draw_percentage_box(data)
       IN  /\ raised' = r.raised
           /\ layers' = layers \o r.ops
           /\ gauge' = r.gauge
           /\ pc' = IF r.raised = "none" THEN stage_after("percentage_box") ELSE "raised"
    /\ UNCHANGED <<COLORS, callVars, colorVars, wrapVars, FONTS, assets, data, canvas, thumb>>

\* a bug that consumes the badge list of the RenderSpec while drawing it
RenderBadgesConsumingTheList ==
    /\ pc = "badges"
    /\ LET r == draw_badges(data)
       IN  /\ raised' = r.raised
           /\ layers' = layers \o r.ops
           /\ pc' = IF r.raised = "none" THEN stage_after("badges") ELSE "raised"
    /\ data' = [data EXCEPT !.badges = <<>>]
    /\ UNCHANGED <<COLORS, callVars, colorVars, wrapVars, FONTS, assets, canvas, gauge, thumb>>

\* lines 478-480
RenderBadges ==
    /\ pc = "badges"
    /\ LET r == draw_badges(data)
       IN  /\ raised' = r.raised
           /\ layers' = layers \o r.ops
           /\ pc' = IF r.raised = "none" THEN stage_after("badges") ELSE "raised"
    /\ UNCHANGED <<COLORS, callVars, colorVars, wrapVars, FONTS, assets, data, canvas, gauge, thumb>>

\* what a call of render_template hands to its caller: the image, or the
\* exception that left it
Result ==
    IF raised = "none"
    THEN [raised |-> "none", image |-> canvas, layers |-> layers, gauge |-> gauge,
          thumb |-> thumb]
    ELSE [raised |-> raised, image |-> <<>>, layers |-> <<>>, gauge |-> NoGauge,
          thumb |-> NoThumb]

\* the caller takes the result (a preview, src/bot.py:508) and calls
\* render_template on the same session again (the final export, line 913)
RenderAgain ==
    /\ pc \in {"done", "raised"}
    /\ Len(returned) < MaxCalls - 1
    /\ returned' = Append(returned, Result)
    /\ pc' = "render_template"
    /\ raised' = "none"
    /\ canvas' = <<>>
    /\ layers' = <<>>
    /\ gauge' = NoGauge
    /\ thumb' = NoThumb
    /\ UNCHANGED <<COLORS, SESSIONS, update, colorVars, wrapVars, FONTS, assets, data>>

NextRender ==
    \/ RenderBackground
    \/ RenderBlur
    \/ RenderThumbnail
    \/ RenderGlass
    \/ RenderText
    \/ RenderPercentageBox
    \/ RenderBadges
    \/ RenderAgain

SpecRender == InitRender /\ [][NextRender]_vars

\* C1: after the background layer is combined with the opaque white base,
\* every canvas pixel where the generated background is opaque has the
\* background's colour, not white.
C1_BackgroundReplacesWhiteBase ==
    pc = "blur" =>
        \A i \in 1..Len(SamplePoints) :
            draw_background(data)[i][4] = 255 => canvas[i] = draw_background(data)[i]

\* what the code does instead: the white base covers the background, the
\* canvas is white at every point whatever the background is
CanvasIsWhiteAfterBackground ==
    pc = "blur" => \A i \in 1..Len(SamplePoints) : canvas[i] = White

AfterThumbnail == {"glass", "text", "percentage_box", "badges", "done"}

\* a layer is composited at a destination the canvas accepts: some part of it
\* lies on the canvas
LayerAccepted(op) ==
    LET b == pasted_box(op.x, op.y, op.w, op.h)
    IN  b[1] <= b[3] /\ b[2] <= b[4]

EffectsAreKnown(d) ==
    \A i \in 1..Len(d.effects) : d.effects[i] \in {S_rounded, S_shadow, S_blur}

\* C2: for every RenderSpec whose layout is one of left, right, top, overlay and
\* whose effects are any subset of {rounded, shadow, blur}, render_template runs
\* all stages to completion and returns the canvas; no stage aborts the render,
\* and every layer is composited at a destination the canvas accepts.
C2_RenderCompletesForEveryLayoutAndEffects ==
    (data.layout \in Layouts /\ EffectsAreKnown(data)) =>
        /\ pc # "raised"
        /\ raised = "none"
        /\ \A k \in 1..Len(layers) : LayerAccepted(layers[k])
        /\ pc = "done" => Len(canvas) = Len(SamplePoints)

\* a RenderSpec whose fields other than layout and effects are well formed, with
\* the font files in place
RestIsWellFormed ==
    /\ assets = {File_Regular, File_Bold, File_Italic}
    /\ "thumbnail" \in DOMAIN data => data.thumbnail # GarbageBytes
    /\ IsIntIn(data.percentage, 0, 100)
    /\ data.badges = <<>>
    /\ data.percentage_box_bg = S_hexFFFFFF

\* the part of C2 that the code keeps: layout and effects alone never abort a
\* render, the shadow of the overlay layout at (-10, -10) included
LayoutAndEffectsAloneNeverAbort ==
    RestIsWellFormed =>
        /\ pc # "raised"
        /\ \A k \in 1..Len(layers) : LayerAccepted(layers[k])

Decodable(d) == "thumbnail" \in DOMAIN d /\ "image" \in DOMAIN d.thumbnail

\* C3: when the thumbnail bytes of a RenderSpec are absent or cannot be decoded
\* as an image, render_template substitutes the neutral-gray placeholder and
\* still completes the render; a decode failure is never surfaced to the caller.
C3_PlaceholderForAbsentOrUndecodableThumbnail ==
    ~Decodable(data) =>
        /\ raised # "UnidentifiedImageError"
        /\ pc \in AfterThumbnail => thumb = Placeholder

\* the part of C3 that the code keeps: with no thumbnail bytes (no key, or an
\* empty bytearray) the gray placeholder is placed
PlaceholderForAbsentThumbnail ==
    ("thumbnail" \notin DOMAIN data \/ data.thumbnail = EmptyBytes) =>
        /\ raised # "UnidentifiedImageError"
        /\ pc \in AfterThumbnail => thumb = Placeholder

\* the stage of render_template that draws a layer, numbered in the order of
\* the claim: background, blur, thumbnail (with its shadow), glass panel, text
\* blocks, progress widget, badges
StageOfLayer(name) ==
    CASE name = "background" -> 1
      [] name = "blur" -> 2
      [] name \in {"shadow", "shadow_rectangle", "thumbnail"} -> 3
      [] name = "glass" -> 4
      [] name \in {"title", "author", "synopsis", "branding"} -> 5
      [] name \in {"percentage_box", "ring", "arc", "percent_label", "chapters_label"} -> 6
      [] name = "badge" -> 7
      [] OTHER -> 0

LayerNames == [k \in 1..Len(layers) |-> layers[k].layer]

HasLayer(name) == \E k \in 1..Len(layers) : layers[k].layer = name

\* C14: render_template applies its stages in one fixed order for every
\* RenderSpec: background, whole-canvas blur (only if blur is in effects),
\* thumbnail, glass panel (only if the template is glass), text blocks,
\* progress widget, badges last: every layer drawn belongs to the same or a
\* later stage than every layer drawn before it, so the blur comes before the
\* thumbnail, the text, the widget and the badges, and a render that completes
\* has run all the stages.
C14_StagesRunInOneFixedOrder ==
    /\ \A i, j \in 1..Len(layers) :
           i < j => /\ StageOfLayer(layers[i].layer) >= 1
                    /\ StageOfLayer(layers[i].layer) <= StageOfLayer(layers[j].layer)
    /\ \A k \in 1..Len(layers) :
           /\ layers[k].layer = "background" => k = 1
           /\ layers[k].layer = "blur" => k = 2 /\ InList(S_blur, data.effects)
           /\ layers[k].layer = "glass" => data.template = S_glass
    /\ HasLayer("thumbnail") =>
           (InList(S_blur, data.effects) <=> HasLayer("blur"))
    /\ HasLayer("title") => (data.template = S_glass <=> HasLayer("glass"))
    /\ pc = "done" =>
           /\ HasLayer("background") /\ HasLayer("thumbnail") /\ HasLayer("title")
           /\ HasLayer("branding") /\ HasLayer("percentage_box") /\ HasLayer("arc")
           /\ data.badges # <<>> => layers[Len(layers)].layer = "badge"

\* a glass card with shadow and blur, percentage 50 and two badges, rendered to
\* the end: the layers in the order of the claim
C14_Witness ==
    /\ pc = "done"
    /\ LayerNames = <<"background", "blur", "shadow", "shadow_rectangle", "thumbnail",
                      "glass", "title",
                      "author", "synopsis", "branding", "percentage_box", "ring", "arc",
                      "percent_label", "chapters_label", "badge", "badge">>

\* C15: two calls of render_template on the same RenderSpec, with no mutation
\* in between, hand identical results to the caller (the same image, or the
\* same exception), for every background variant including the noise pattern.
C15_SameSpecRendersIdentically ==
    (pc \in {"done", "raised"} /\ returned # <<>>) =>
        \A k \in 1..Len(returned) : returned[k] = Result

\* the noise pattern rendered twice to the end, with the same image both times
C15_Witness ==
    /\ pc = "done"
    /\ data.background_type = S_pattern
    /\ Get(data, "pattern_style", S_stripes) = S_noise
    /\ Len(returned) = 1
    /\ returned[1].raised = "none"
    /\ returned[1].image = canvas
    /\ Len(canvas) = Len(SamplePoints)

\* C16: a render call has no side effect on shared state: no stage of
\* render_template, and no second call, changes the RenderSpec it is given (its
\* badge list and its effects list included), the colour registry, the font
\* registry or the session store.
C16_RenderLeavesSharedStateUnchanged ==
    [][/\ data' = data
       /\ COLORS' = COLORS
       /\ FONTS' = FONTS
       /\ SESSIONS' = SESSIONS]_vars

\* a card with two badges and two effects rendered to the end, its session
\* still holding the badges and the effects it was given
C16_Witness ==
    /\ pc = "done"
    /\ Len(data.badges) = 2
    /\ data.effects = <<S_shadow, S_blur>>
    /\ HasLayer("badge")
    /\ SESSIONS = <<data>>
    /\ COLORS = DefaultCOLORS
    /\ FONTS = DefaultFONTS

\* the index in layers of the first layer of a name (0 if there is none)
LayerIndex(name) ==
    IF HasLayer(name) THEN CHOOSE k \in 1..Len(layers) :
                               /\ layers[k].layer = name
                               /\ \A j \in 1..(k - 1) : layers[j].layer # name
    ELSE 0

\* C17: draw_thumbnail places the thumbnail, by layout mode, with size
\* (w-180, floor(0.66*(w-180))) at (90, 80) for top, (520, 780) at (w-600, 360)
\* for right, (w, h) at (0, 0) for overlay, and (520, 780) at (80, 360) for
\* left and for every unrecognized mode, (w, h) being the canvas size.
C17_ThumbnailSizeAndPositionByLayout ==
    HasLayer("thumbnail") =>
        LET t == layers[LayerIndex("thumbnail")]
            box == <<t.w, t.h, t.x, t.y>>
        IN  /\ data.layout = S_top =>
                   box = <<CanvasW - 180, (66 * (CanvasW - 180)) \div 100, 90, 80>>
            /\ data.layout = S_right => box = <<520, 780, CanvasW - 600, 360>>
            /\ data.layout = S_overlay => box = <<CanvasW, CanvasH, 0, 0>>
            /\ data.layout \notin {S_top, S_right, S_overlay} => box = <<520, 780, 80, 360>>

\* the right layout on the 1080x1920 canvas: 520x780 at (480, 360)
C17_Witness ==
    /\ pc = "done"
    /\ data.layout = S_right
    /\ HasLayer("thumbnail")
    /\ layers[LayerIndex("thumbnail")] = Op("thumbnail", 480, 360, 520, 780)

ShadowBeneathThumbnailNotShifted ==
    (HasLayer("thumbnail") /\ InList(S_shadow, data.effects)) =>
        LET t == layers[LayerIndex("thumbnail")]
            r == layers[LayerIndex("shadow_rectangle")]
        IN  /\ HasLayer("shadow_rectangle")
            /\ LayerIndex("shadow_rectangle") < LayerIndex("thumbnail")
            /\ r.x = t.x /\ r.y = t.y
            /\ r.w = t.w /\ r.h = t.h

(***************************************************************************)
(* SpecBackground: one call of draw_background (src/bot.py:213-266) on a   *)
(* background descriptor.  canvas holds the layer it returns.              *)
(***************************************************************************)
BackgroundTypes == {S_solid, S_gradient, S_pattern, S_image, S_video, <<>>}

PatternStyles == {S_stripes, S_dots, S_noise, S_zigzag}

BackgroundColors == {S_red, S_nope, S_hex11223344}

ImageBytes == {OpaqueImage, TranslucentImage, GarbageBytes, EmptyBytes}

BackgroundDescriptors ==
    BackgroundCases \cup
    {[background_type |-> t, background_color |-> c, background_colors |-> <<c, S_hex102030>>,
      pattern_style |-> st, pattern_bg |-> S_hex102030, pattern_fg |-> c,
      background_image |-> b] :
        t \in BackgroundTypes, c \in BackgroundColors, st \in PatternStyles, b \in ImageBytes}

InitBackground ==
    /\ pc = "draw_background"
    /\ raised = "none"
    /\ CallIdle
    /\ COLORS = DefaultCOLORS
    /\ ColorIdle
    /\ WrapIdle
    /\ FONTS = DefaultFONTS
    /\ assets = {File_Regular, File_Bold, File_Italic}
    /\ data \in BackgroundDescriptors
    /\ canvas = <<>>
    /\ layers = <<>>
    /\ gauge = NoGauge
    /\ thumb = NoThumb

\* draw_background on the descriptor: the colour errors and the decode errors
\* are caught inside (lines 222-227, 259-264), nothing else in it raises
DrawBackground ==
    /\ pc = "draw_background"
    /\ canvas' = draw_background(data)
    /\ layers' = <<Op("background", 0, 0, CanvasW, CanvasH)>>
    /\ raised' = "none"
    /\ pc' = "drawn"
    /\ UNCHANGED <<COLORS, callVars, colorVars, wrapVars, FONTS, assets, data, gauge, thumb>>

NextBackground == DrawBackground

SpecBackground == InitBackground /\ [][NextBackground]_vars

NoImageBytes(d) ==
    \/ "background_image" \notin DOMAIN d
    \/ d.background_image = EmptyBytes

\* C19: draw_background never raises and returns a full-canvas layer for every
\* descriptor: an unrecognized background type, an image type with no bytes
\* and an image whose bytes fail to decode all give a fully transparent layer;
\* an unrecognized pattern style is drawn as stripes.
C19_BackgroundNeverRaisesAndFallsBack ==
    pc = "drawn" =>
        LET btype == Get(data, "background_type", S_solid)
        IN  /\ raised = "none"
            /\ Len(canvas) = Len(SamplePoints)
            /\ layers = <<Op("background", 0, 0, CanvasW, CanvasH)>>
            /\ btype \notin {S_solid, S_gradient, S_pattern, S_image} =>
                   canvas = Uniform(<<0, 0, 0, 0>>)
            /\ (btype = S_image /\ NoImageBytes(data)) => canvas = Uniform(<<0, 0, 0, 0>>)
            /\ (btype = S_image /\ ~NoImageBytes(data) /\ data.background_image = GarbageBytes) =>
                   canvas = Uniform(<<0, 0, 0, 0>>)
            /\ (btype = S_pattern /\ Get(data, "pattern_style", S_stripes) = S_zigzag) =>
                   /\ canvas = draw_background([data EXCEPT !.pattern_style = S_stripes])
                   /\ \A i \in 1..Len(canvas) :
                          canvas[i] \in {Opaque(parse_color(data.pattern_bg, S_hex000000)),
                                         Opaque(parse_color(data.pattern_fg, S_hex000000))}
                   /\ canvas[1] = Opaque(parse_color(data.pattern_fg, S_hex000000))
                   /\ canvas[4] = Opaque(parse_color(data.pattern_bg, S_hex000000))

\* an image background whose bytes no decoder identifies: a transparent layer
C19_Witness ==
    /\ pc = "drawn"
    /\ raised = "none"
    /\ data.background_type = S_image
    /\ "background_image" \in DOMAIN data
    /\ data.background_image = GarbageBytes
    /\ canvas = Uniform(<<0, 0, 0, 0>>)

(***************************************************************************)
(* SpecAlpha: the transparency steps of the conversation                   *)
(* (percentage_box_alpha, src/bot.py:634-641; badge_alpha, lines 709-716)  *)
(* on the text the user sends, and the drawing call that uses the stored   *)
(* alpha.                                                                  *)
(***************************************************************************)
AlphaTexts == { <<"0">>, <<"2","5","5">>, <<"2","5","6">>, <<"3","0","0">>, <<"-","1">>,
                <<"-","5">>, <<" ","1","2","8"," ">>, <<"1","0","0","0","0">>,
                <<"2","1","4","7","4","8","3","6","4","7">>,
                <<"2","1","4","7","4","8","3","6","4","8">>,
                <<"-","2","1","4","7","4","8","3","6","4","9">>,
                <<"9","9","9","9","9","9","9","9","9","9","9">>,
                S_abc, <<>> }

\* the badge that badge_text, badge_bg and badge_text_color have built so far
BadgeInProgress == [text |-> <<"N","e","w">>, bg |-> S_red, color |-> S_hex000000]

AlphaSessions ==
    {Merge(DefaultSession, [percentage_box_position |-> q, badges |-> bl \o <<BadgeInProgress>>]) :
        q \in Corners, bl \in {<<>>, <<Badge(S_top_left)>>, <<Badge(S_bottom_right)>>}}

InitAlpha ==
    /\ pc \in {"PERCENTAGE_BOX_ALPHA", "BADGE_ALPHA"}
    /\ raised = "none"
    /\ CallIdle
    /\ COLORS = DefaultCOLORS
    /\ ColorIdle
    /\ WrapIdle
    /\ FONTS = DefaultFONTS
    /\ assets = {File_Regular, File_Bold, File_Italic}
    /\ data \in AlphaSessions
    /\ canvas = <<>>
    /\ layers = <<>>
    /\ gauge = NoGauge
    /\ thumb = NoThumb

\* the percentage_box_alpha step (lines 634-641) on the message text t
percentage_box_alpha(t) ==
    /\ pc = "PERCENTAGE_BOX_ALPHA"
    /\ LET n == int(PyStr(strip(t)))
       IN  data' = [data EXCEPT !.percentage_box_alpha = IF n.ok THEN PyIntOf(n) ELSE PyInt(220)]
    /\ pc' = "PERCENTAGE_BOX_BORDER"
    /\ UNCHANGED <<raised, COLORS, callVars, colorVars, wrapVars, FONTS, assets, canvas, layers,
                   gauge, thumb>>

\* the badge_alpha step (lines 709-716) on the message text t
badge_alpha(t) ==
    /\ pc = "BADGE_ALPHA"
    /\ LET n == int(PyStr(strip(t)))
           last == Len(data.badges)
           badge == Merge(data.badges[last], [alpha |-> IF n.ok THEN PyIntOf(n) ELSE PyInt(220)])
       IN  data' = [data EXCEPT !.badges = [@ EXCEPT ![last] = badge]]
    /\ pc' = "BADGE_RADIUS"
    /\ UNCHANGED <<raised, COLORS, callVars, colorVars, wrapVars, FONTS, assets, canvas, layers,
                   gauge, thumb>>

NextAlpha ==
    \/ \E t \in AlphaTexts : percentage_box_alpha(t)
    \/ \E t \in AlphaTexts : badge_alpha(t)
    \/ DrawPercentageBox
    \/ DrawBadges

SpecAlpha == InitAlpha /\ [][NextAlpha]_vars

IsFilled(op) == op.layer \in {"percentage_box", "badge"}

\* C20: whatever integer the user gives at the percentage_box_alpha and
\* badge_alpha steps, the drawing call completes and every alpha with which the
\* progress panel or a badge is filled lies in [0,255]: a value outside that
\* range is clamped or defaulted before it is used for drawing.
C20_FillAlphaWithin0And255 ==
    pc \in {"drawn", "raised"} =>
        /\ raised = "none"
        /\ \E k \in 1..Len(layers) : IsFilled(layers[k])
        /\ \A k \in 1..Len(layers) : IsFilled(layers[k]) => layers[k].alpha \in 0..255

\* what the code does: the steps store the integer as it is, the drawing code
\* hands it on as it is, and the ink saturates it to [0,255] as long as it
\* fits a C int
StoredAlphaIsNotClampedButInkSaturates ==
    /\ (pc = "PERCENTAGE_BOX_BORDER") => "int" \in DOMAIN data.percentage_box_alpha
    /\ (pc \in {"drawn", "raised"} /\ gauge # NoGauge) =>
           /\ gauge.alpha = data.percentage_box_alpha.int
           /\ layers[1].alpha = CLIP8(gauge.alpha)
    /\ (pc \in {"drawn", "raised"}) =>
           (raised = "none" <=>
               /\ "big" \notin DOMAIN data.percentage_box_alpha
               /\ "big" \notin DOMAIN Get(data.badges[Len(data.badges)], "alpha", PyInt(220)))
    /\ (pc = "raised") => raised = "OverflowError"

\* an alpha of 300 is stored and handed to the fill as 300
AlphaOf300IsHandedToTheFill ==
    /\ pc = "drawn"
    /\ data.percentage_box_alpha = PyInt(300)
    /\ gauge.alpha = 300
    /\ layers[1].alpha = 255

(***************************************************************************)
(* SpecText: one call of draw_text_blocks (src/bot.py:306-342) on a        *)
(* session whose synopsis has up to MaxWords words.  lines holds the       *)
(* wrapped synopsis (line 328).                                            *)
(***************************************************************************)
\* n words, a wide letter and a narrow letter in turn, one space between
RECURSIVE SynopsisOfWords(_)
SynopsisOfWords(n) ==
    IF n = 0 THEN <<>>
    ELSE (IF n = 1 THEN <<>> ELSE SynopsisOfWords(n - 1) \o <<" ">>)
         \o (IF n % 2 = 1 THEN <<"W">> ELSE <<"i">>)

SynopsisSizes == {0, 480, 960}

TextSessions ==
    {Merge(DefaultSession, [synopsis |-> SynopsisOfWords(n), synopsis_size |-> sz,
                            font |-> <<S_Roboto, st>>]) :
        n \in 0..MaxWords, sz \in SynopsisSizes, st \in {S_Regular, S_Bold, S_nope}}

InitText ==
    /\ pc = "draw_text_blocks"
    /\ raised = "none"
    /\ CallIdle
    /\ COLORS = DefaultCOLORS
    /\ ColorIdle
    /\ text = <<>> /\ font = <<>> /\ max_width = 0 /\ lines = <<>>
    /\ FONTS = DefaultFONTS
    /\ assets \in {{File_Regular, File_Bold, File_Italic}, {}}
    /\ data \in TextSessions
    /\ canvas = <<>>
    /\ layers = <<>>
    /\ gauge = NoGauge
    /\ thumb = NoThumb

\* the font of the synopsis block (line 325)
synopsis_font(d) ==
    get_font(Get(d, "font", <<S_Roboto, S_Regular>>)[1], Get(d, "font", <<S_Roboto, S_Regular>>)[2],
             Get(d, "synopsis_size", 30))

DrawTextBlocks ==
    /\ pc = "draw_text_blocks"
    /\ LET r == draw_text_blocks(data)
       IN  /\ raised' = r.raised
           /\ layers' = layers \o r.ops
           /\ pc' = IF r.raised = "none" THEN "drawn" ELSE "raised"
    /\ lines' = word_wrap(data.synopsis, FaceOf(synopsis_font(data)), CanvasW - 120)
    /\ UNCHANGED <<COLORS, callVars, colorVars, text, font, max_width, FONTS, assets, data,
                   canvas, gauge, thumb>>

NextText == DrawTextBlocks

SpecText == InitText /\ [][NextText]_vars

SynopsisLayers == SelectSeq(layers, LAMBDA op : op.layer = "synopsis")

\* the synopsis lines are drawn as the claim says: the first min(12, n) of the
\* n wrapped lines, in order, from y = 200 in steps of the font size + 8
SynopsisDrawnAsClaimed ==
    LET f == synopsis_font(data)
        drawn == SynopsisLayers
    IN  /\ raised = "none"
        /\ Len(drawn) = Min(12, Len(lines))
        /\ \A k \in 1..Len(drawn) :
               /\ drawn[k].x = 60
               /\ drawn[k].y = 200 + (k - 1) * (data.synopsis_size + 8)
               /\ drawn[k].w = textsize(lines[k], FaceOf(f))

\* C21: draw_text_blocks draws exactly the first min(12, n) of the n wrapped
\* synopsis lines, in order, each one line height (font size + 8) below the
\* one before, starting at y = 200, and drops the lines beyond the 12th
\* without an error.
C21_AtMost12SynopsisLinesAreDrawn ==
    pc \in {"drawn", "raised"} => SynopsisDrawnAsClaimed

\* the part of C21 that the code keeps: when the synopsis font is loaded from
\* its file, or the synopsis has no line
SynopsisDrawnAsClaimedWithLoadedFont ==
    (pc \in {"drawn", "raised"} /\ (synopsis_font(data).truetype \/ lines = <<>>)) =>
        SynopsisDrawnAsClaimed

\* fourteen lines wrapped, twelve drawn, the twelfth at y = 200 + 11 * 968
TwelveOfFourteenLinesDrawn ==
    /\ pc = "drawn"
    /\ Len(lines) = 14
    /\ Len(SynopsisLayers) = 12
    /\ SynopsisLayers[12].y = 200 + 11 * 968
    /\ layers[Len(layers)].layer = "branding"

\* with the built-in fallback face the first line is drawn and the line height
\* cannot be computed
FallbackFaceAbortsTheSynopsis ==
    /\ pc = "raised"
    /\ raised = "AttributeError"
    /\ Len(SynopsisLayers) = 1

(***************************************************************************)
(* SpecFont: the font_family_style step of the conversation                *)
(* (src/bot.py:835-844) on the text the user sends, and a call of get_font *)
(* (lines 173-179).  text holds the message text, font the face returned.  *)
(***************************************************************************)
S_Noto == <<"N","o","t","o">>
File_Noto == <<"N","o","t","o","-","R","e","g","u","l","a","r",".","t","t","f">>

\* a registry as fonts.json may give it (lines 57-59): it has no Roboto
NotoFONTS == << <<S_Noto, << <<S_Regular, File_Noto>> >> >> >>

FontTexts == { <<"R","o","b","o","t","o"," ","B","o","l","d">>,
               <<"R","o","b","o","t","o">>,
               <<>>,
               <<"r","o","b","o","t","o"," ","b","o","l","d">>,
               <<"R","o","b","o","t","o"," ","B","l","a","c","k">>,
               <<"A","r","i","a","l"," ","B","o","l","d">>,
               <<" ","R","o","b","o","t","o"," "," ","I","t","a","l","i","c"," ">>,
               <<"R","o","b","o","t","o"," ","B","o","l","d"," ","x">>,
               <<"B","o","l","d"," ","R","o","b","o","t","o">>,
               <<"N","o","t","o"," ","R","e","g","u","l","a","r">>,
               <<"N","o","t","o">> }

FontSessions ==
    {Merge(DefaultSession, [font |-> <<fam, st>>, synopsis_size |-> sz]) :
        fam \in {S_Roboto, S_Noto, S_nope}, st \in {S_Regular, S_Bold, S_nope},
        sz \in {-1, 0, 30}}

InitFont ==
    /\ pc \in {"FONT_FAMILY_STYLE", "get_font"}
    /\ raised = "none"
    /\ CallIdle
    /\ COLORS = DefaultCOLORS
    /\ ColorIdle
    /\ text = <<>> /\ font = <<>> /\ max_width = 0 /\ lines = <<>>
    /\ FONTS \in {DefaultFONTS, NotoFONTS}
    /\ assets \in {{File_Regular, File_Bold, File_Italic, File_Noto}, {File_Bold}, {}}
    /\ data \in FontSessions
    /\ canvas = <<>>
    /\ layers = <<>>
    /\ gauge = NoGauge
    /\ thumb = NoThumb

\* `family in FONTS and style in FONTS[family]`
InRegistry(family, style) ==
    InGroup(family, FONTS) /\ InGroup(style, GroupGet(family, FONTS))

\* a bug that validates the family only
validated_by_family_only(family, style) ==
    IF ~InGroup(family, FONTS) THEN <<S_Roboto, S_Regular>> ELSE <<family, style>>

\* lines 840-841: an unknown pair is replaced by (Roboto, Regular)
validated(family, style) ==
    IF ~InGroup(family, FONTS) \/ ~InGroup(style, GroupGet(family, FONTS))
    THEN <<S_Roboto, S_Regular>> ELSE <<family, style>>

\* the font_family_style step (lines 835-844) on the message text t
font_family_style(t) ==
    /\ pc = "FONT_FAMILY_STYLE"
    /\ LET parts == split(strip(t))
           family == IF parts # <<>> THEN parts[1] ELSE S_Roboto
           style == IF Len(parts) > 1 THEN parts[2] ELSE S_Regular
       IN  data' = [data EXCEPT !.font = validated(family, style)]
    /\ text' = t
    /\ pc' = "TITLE_SIZE"
    /\ UNCHANGED <<raised, COLORS, callVars, colorVars, font, max_width, lines, FONTS, assets,
                   canvas, layers, gauge, thumb>>

\* get_font(family, style, size) as line 325 calls it on the session: every
\* failure inside is caught (line 178) and the built-in face returned
GetFont ==
    /\ pc \in {"get_font", "TITLE_SIZE"}
    /\ font' = synopsis_font(data)
    /\ raised' = "none"
    /\ pc' = "got"
    /\ UNCHANGED <<COLORS, callVars, colorVars, text, max_width, lines, FONTS, assets, data,
                   canvas, layers, gauge, thumb>>

NextFont ==
    \/ \E t \in FontTexts : font_family_style(t)
    \/ GetFont

SpecFont == InitFont /\ [][NextFont]_vars

\* the first and the second word of a text, "" if there is none
WordOf(t, k) == IF Len(split(t)) >= k THEN split(t)[k] ELSE <<>>

\* C22: after the font_family_style step, for any user text, the session's
\* font is a (family, style) pair of the font registry (the typed pair, where
\* a missing style means Regular and a missing family Roboto), or the default
\* pair (Roboto, Regular) when the typed pair is not in the registry; and
\* get_font never raises, for any family, style and size: it returns the face
\* of the registry's file, or the built-in fallback face on any lookup or load
\* failure.
C22_FontIsRegisteredOrDefault ==
    /\ pc = "TITLE_SIZE" =>
           LET fam == IF WordOf(text, 1) = <<>> THEN S_Roboto ELSE WordOf(text, 1)
               sty == IF WordOf(text, 2) = <<>> THEN S_Regular ELSE WordOf(text, 2)
           IN  /\ Len(data.font) = 2
               /\ InRegistry(data.font[1], data.font[2]) \/ data.font = <<S_Roboto, S_Regular>>
               /\ InRegistry(fam, sty) => data.font = <<fam, sty>>
               /\ ~InRegistry(fam, sty) => data.font = <<S_Roboto, S_Regular>>
    /\ pc = "got" =>
           /\ raised = "none"
           /\ font.truetype =>
                  /\ InRegistry(data.font[1], data.font[2])
                  /\ GroupGet(data.font[2], GroupGet(data.font[1], FONTS)) \in assets
                  /\ font.size = data.synopsis_size
           /\ ~font.truetype => font = [truetype |-> FALSE, size |-> 0]

\* "Roboto Black" is typed: the style is not in the registry, the session gets
\* (Roboto, Regular), whose file is missing, and get_font returns the fallback
C22_Witness ==
    /\ pc = "got"
    /\ text = <<"R","o","b","o","t","o"," ","B","l","a","c","k">>
    /\ data.font = <<S_Roboto, S_Regular>>
    /\ assets = {File_Bold}
    /\ font = [truetype |-> FALSE, size |-> 0]

(***************************************************************************)
(* SpecConversation and SpecChat: the Telegram handlers of build_app       *)
(* (src/bot.py:954-1012) on the session store.  A conversation is kept per *)
(* chat and user (the ConversationHandler is built with its default keys), *)
(* a session per chat (line 123).  pc maps a conversation key <<chat,      *)
(* user>> to the state the conversation waits in, "END" when there is      *)
(* none.  An update no handler accepts changes nothing and is left out.    *)
(* returned holds the render results of the update handled last.           *)
(***************************************************************************)
S_modern == <<"m","o","d","e","r","n">>
S_poster == <<"p","o","s","t","e","r">>
S_png == <<"p","n","g">>
S_pdf == <<"p","d","f">>
S_white == <<"w","h","i","t","e">>
S_black == <<"b","l","a","c","k">>
S_gray == <<"g","r","a","y">>
S_yes == <<"y","e","s">>
S_no == <<"n","o">>
S_done == <<"d","o","n","e">>
S_none == <<"n","o","n","e">>
S_start == <<"/","s","t","a","r","t">>
S_cancel == <<"/","c","a","n","c","e","l">>
S_preview == <<"/","p","r","e","v","i","e","w">>
S_colors == <<"/","c","o","l","o","r","s">>
S_fonts == <<"/","f","o","n","t","s">>
S_addbadge == <<"/","a","d","d","b","a","d","g","e">>
S_clearbadges == <<"/","c","l","e","a","r","b","a","d","g","e","s">>

\* the conversation states in their declared order (lines 76-113)
ConversationStates == <<"MANGA_IMG", "MANGA_NAME", "SYNOPSIS", "AUTHOR",
                        "YEAR", "CHAPTERS", "PERCENTAGE", "PERCENTAGE_BOX_POSITION",
                        "PERCENTAGE_BOX_BG", "PERCENTAGE_BOX_ALPHA", "PERCENTAGE_BOX_BORDER", "PERCENTAGE_BOX_RADIUS",
                        "PERCENTAGE_BOX_CHAPTERS", "BADGE_START", "BADGE_TEXT", "BADGE_BG",
                        "BADGE_TEXT_COLOR", "BADGE_ALPHA", "BADGE_RADIUS", "BADGE_POSITION",
                        "TEMPLATE", "BACKGROUND_TYPE", "BACKGROUND_DETAIL", "LAYOUT",
                        "EFFECTS", "EXPORT_FORMAT", "BRANDING", "FONT_FAMILY_STYLE",
                        "TITLE_SIZE", "AUTHOR_SIZE", "SYNOPSIS_SIZE", "BRANDING_SIZE",
                        "TITLE_COLOR", "AUTHOR_COLOR", "SYNOPSIS_COLOR", "BRANDING_COLOR">>

\* the place of a state in that order, 0 for "END"
StateIndex(state) ==
    IF \E i \in 1..Len(ConversationStates) : ConversationStates[i] = state
    THEN CHOOSE i \in 1..Len(ConversationStates) : ConversationStates[i] = state
    ELSE 0

Chats == {1}
Users == {1, 2}
\* the conversation keys of the two users of the chat
Host == <<1, 1>>
Guest == <<1, 2>>
Keys == Chats \X Users

\* the badges a session's list may hold before badge_text is no longer sent
MaxSessionBadges == 2
\* the steps the second user of a chat takes in a conversation
MaxGuestSteps == 2

Text(t) == [text |-> t]
Photo(b) == [photo |-> b]
IsText(m) == "text" \in DOMAIN m

\* session(update) (lines 122-152): the store with the chat's entry created
\* from the defaults when there was none
session(c) == IF c \in DOMAIN SESSIONS THEN SESSIONS ELSE SESSIONS @@ (c :> DefaultSession)

\* s = session(update); s[key] = value, for the keys of the record o
Stored(c, o) == [session(c) EXCEPT ![c] = Merge(@, o)]

\* SESSIONS.pop(cid, None) (line 498)
Popped(c) == [x \in (DOMAIN SESSIONS) \ {c} |-> SESSIONS[x]]

\* `text.strip() or dflt`
text_or(t, dflt) == IF strip(t) = <<>> THEN dflt ELSE strip(t)

\* `try: int(text.strip()) except Exception: dflt`
int_or(t, dflt) == LET n == int(PyStr(strip(t))) IN IF n.ok THEN PyIntOf(n) ELSE PyInt(dflt)

\* a bug that stores the text as typed
choice_unchecked(v, allowed, dflt) == v

\* `if v not in [...]: v = dflt` (lines 620-621, 733-734, 743-744, 755-756,
\* 800-801, 822-823)
choice(v, allowed, dflt) == IF InList(v, allowed) THEN v ELSE dflt

\* str.split(sep) for a one-character separator
RECURSIVE split_on_loop(_, _, _, _)
split_on_loop(s, sep, cur, acc) ==
    IF s = <<>> THEN Append(acc, cur)
    ELSE IF s[1] = sep THEN split_on_loop(Tail(s), sep, <<>>, Append(acc, cur))
    ELSE split_on_loop(Tail(s), sep, Append(cur, s[1]), acc)

split_on(s, sep) == split_on_loop(s, sep, <<>>, <<>>)

\* [p.strip() for p in parts]
RECURSIVE Stripped(_)
Stripped(parts) ==
    IF parts = <<>> THEN <<>> ELSE <<strip(parts[1])>> \o Stripped(Tail(parts))

\* render_template(data) (lines 443-480) as one call: the exception that left
\* it ("none" if it returned) and the layers of the returned image
render_template(d) ==
    LET thumb_bytes == Get(d, "thumbnail", PyNone)
        background == <<Op("background", 0, 0, CanvasW, CanvasH)>>
        blur == IF InList(S_blur, Get(d, "effects", <<>>))
                THEN <<Op("blur", 0, 0, CanvasW, CanvasH)>> ELSE <<>>
        th == draw_thumbnail(d)
        glass == IF Get(d, "template", <<>>) = S_glass
                 THEN <<Op("glass", 40, 320, CanvasW - 80, CanvasH - 360)>> ELSE <<>>
        tx == draw_text_blocks(d)
        pb == draw_percentage_box(d)
        bd == draw_badges(d)
        aborted(exc) == [raised |-> exc, layers |-> <<>>]
    IN  IF Truthy(thumb_bytes) /\ ~Image_open(thumb_bytes).ok
        THEN aborted("UnidentifiedImageError")
        ELSE IF tx.raised # "none" THEN aborted(tx.raised)
        ELSE IF pb.raised # "none" THEN aborted(pb.raised)
        ELSE IF bd.raised # "none" THEN aborted(bd.raised)
        ELSE [raised |-> "none",
              layers |-> background \o blur \o th.ops \o glass \o tx.ops \o pb.ops \o bd.ops]

InitConversation ==
    /\ pc = [k \in Keys |-> "END"]
    /\ raised = "none"
    /\ CallIdle
    /\ COLORS = DefaultCOLORS
    /\ ColorIdle
    /\ WrapIdle
    /\ FONTS = DefaultFONTS
    /\ assets = {File_Regular, File_Bold, File_Italic}
    /\ data = <<>>
    /\ canvas = <<>>
    /\ layers = <<>>
    /\ gauge = NoGauge
    /\ thumb = NoThumb

\* what the dispatcher keeps of a handler's run on the message m of the
\* conversation k: the store as the handler left it, the state the handler
\* returned (the conversation stays where it is when the handler raised, and
\* for a handler outside the ConversationHandler, lines 1006-1010), the
\* exception, and the images the handler rendered
Handled(k, m, store, next, exc, results) ==
    /\ update' = [chat |-> k[1], user |-> k[2], message |-> m]
    /\ SESSIONS' = store
    /\ pc' = IF exc = "none" THEN [pc EXCEPT ![k] = next] ELSE pc
    /\ raised' = exc
    /\ returned' = results
    /\ UNCHANGED <<COLORS, colorVars, wrapVars, renderVars>>

\* a step that stores the record o and returns the next state
Stores(k, m, o, next) == Handled(k, m, Stored(k[1], o), next, "none", <<>>)

\* a badge step: s["badges"][-1][key] = value, for the keys of the record o
StoresInLastBadge(k, m, o, next) ==
    LET c == k[1]
        st == session(c)
        s == st[c]
    IN  IF "badges" \notin DOMAIN s THEN Handled(k, m, st, pc[k], "KeyError", <<>>)
        ELSE IF s.badges = <<>> THEN Handled(k, m, st, pc[k], "IndexError", <<>>)
        ELSE LET last == Len(s.badges)
                 badges == [s.badges EXCEPT ![last] = Merge(@, o)]
             IN  Handled(k, m, [st EXCEPT ![c] = Merge(s, [badges |-> badges])], next,
                         "none", <<>>)

\* /start (lines 487-494), an entry point that is also accepted inside a
\* conversation (allow_reentry, line 1002).  s.update(session(update)) reads
\* the entry of the store again, which is the dict that was just cleared.
start(k) ==
    /\ k \in Keys
    /\ LET c == k[1]
           cleared == [session(c) EXCEPT ![c] = <<>>]
           again == IF c \in DOMAIN cleared THEN cleared[c] ELSE DefaultSession
       IN  Handled(k, Text(S_start), [cleared EXCEPT ![c] = Merge(@, again)], "MANGA_IMG",
                   "none", <<>>)

\* /cancel (lines 497-500), a fallback of the conversation (line 1001)
cancel(k) ==
    /\ pc[k] # "END"
    /\ Handled(k, Text(S_cancel), Popped(k[1]), "END", "none", <<>>)

\* /preview (lines 503-513)
cmd_preview(k) ==
    /\ k \in Keys
    /\ LET c == k[1]
           st == session(c)
           r == render_template(st[c])
       IN  IF "thumbnail" \notin DOMAIN st[c]
           THEN Handled(k, Text(S_preview), st, pc[k], "none", <<>>)
           ELSE Handled(k, Text(S_preview), st, pc[k], r.raised, <<r>>)

\* /colors (lines 516-534): a palette image is sent
cmd_colors(k) ==
    /\ k \in Keys
    /\ Handled(k, Text(S_colors), SESSIONS, pc[k], "none", <<>>)

\* /fonts (lines 537-559): a sample image is sent
cmd_fonts(k) ==
    /\ k \in Keys
    /\ Handled(k, Text(S_fonts), SESSIONS, pc[k], "none", <<>>)

\* /addbadge (lines 936-941): s.setdefault("badges", []); the returned
\* BADGE_TEXT goes to no ConversationHandler (line 1009)
cmd_addbadge(k) ==
    /\ k \in Keys
    /\ LET c == k[1]
           st == session(c)
       IN  Handled(k, Text(S_addbadge),
                   [st EXCEPT ![c] = Merge(@, [badges |-> Get(st[c], "badges", <<>>)])],
                   pc[k], "none", <<>>)

\* /clearbadges (lines 944-947)
cmd_clearbadges(k) ==
    /\ k \in Keys
    /\ Handled(k, Text(S_clearbadges), Stored(k[1], [badges |-> <<>>]), pc[k], "none", <<>>)

\* lines 564-569: the photo is downloaded and kept as the thumbnail
MANGA_IMG(k, m) ==
    /\ pc[k] = "MANGA_IMG"
    /\ ~IsText(m)
    /\ Handled(k, m, Stored(k[1], [thumbnail |-> m.photo]), "MANGA_NAME", "none", <<>>)

\* lines 572-576
MANGA_NAME(k, m) ==
    /\ pc[k] = "MANGA_NAME" /\ IsText(m)
    /\ Stores(k, m, [name |-> strip(m.text)], "SYNOPSIS")

\* lines 579-583
SYNOPSIS(k, m) ==
    /\ pc[k] = "SYNOPSIS" /\ IsText(m)
    /\ Stores(k, m, [synopsis |-> strip(m.text)], "AUTHOR")

\* lines 586-590
AUTHOR(k, m) ==
    /\ pc[k] = "AUTHOR" /\ IsText(m)
    /\ Stores(k, m, [author |-> strip(m.text)], "YEAR")

\* lines 593-597
YEAR(k, m) ==
    /\ pc[k] = "YEAR" /\ IsText(m)
    /\ Stores(k, m, [year |-> strip(m.text)], "CHAPTERS")

\* lines 600-604
CHAPTERS(k, m) ==
    /\ pc[k] = "CHAPTERS" /\ IsText(m)
    /\ Stores(k, m, [chapters |-> strip(m.text)], "PERCENTAGE")

\* lines 607-614
PERCENTAGE(k, m) ==
    /\ pc[k] = "PERCENTAGE" /\ IsText(m)
    /\ Stores(k, m,
         [percentage |-> LET n == int(PyStr(strip(m.text)))
                         IN  IF n.ok THEN PyInt(Max(0, Min(100, n.v))) ELSE PyInt(0)],
         "PERCENTAGE_BOX_POSITION")

\* lines 617-624
PERCENTAGE_BOX_POSITION(k, m) ==
    /\ pc[k] = "PERCENTAGE_BOX_POSITION" /\ IsText(m)
    /\ Stores(k, m,
         [percentage_box_position |->
             choice(lower(strip(m.text)),
                    <<S_bottom_right, S_bottom_left, S_top_right, S_top_left>>, S_bottom_right)],
         "PERCENTAGE_BOX_BG")

\* lines 627-631
PERCENTAGE_BOX_BG(k, m) ==
    /\ pc[k] = "PERCENTAGE_BOX_BG" /\ IsText(m)
    /\ Stores(k, m, [percentage_box_bg |-> text_or(m.text, S_white)], "PERCENTAGE_BOX_ALPHA")

\* lines 634-641
PERCENTAGE_BOX_ALPHA(k, m) ==
    /\ pc[k] = "PERCENTAGE_BOX_ALPHA" /\ IsText(m)
    /\ Stores(k, m, [percentage_box_alpha |-> int_or(m.text, 220)], "PERCENTAGE_BOX_BORDER")

\* lines 644-648
PERCENTAGE_BOX_BORDER(k, m) ==
    /\ pc[k] = "PERCENTAGE_BOX_BORDER" /\ IsText(m)
    /\ Stores(k, m, [percentage_box_border |-> text_or(m.text, S_black)], "PERCENTAGE_BOX_RADIUS")

\* lines 651-658
PERCENTAGE_BOX_RADIUS(k, m) ==
    /\ pc[k] = "PERCENTAGE_BOX_RADIUS" /\ IsText(m)
    /\ Stores(k, m, [percentage_box_radius |-> int_or(m.text, 30)], "PERCENTAGE_BOX_CHAPTERS")

\* lines 661-668
PERCENTAGE_BOX_CHAPTERS(k, m) ==
    /\ pc[k] = "PERCENTAGE_BOX_CHAPTERS" /\ IsText(m)
    /\ Stores(k, m, [percentage_box_chapters |-> lower(strip(m.text)) # S_no], "BADGE_START")

\* lines 671-681
BADGE_START(k, m) ==
    /\ pc[k] = "BADGE_START"
    /\ IsText(m)
    /\ LET c == k[1]
           st == session(c)
       IN  IF lower(strip(m.text)) = S_yes
           THEN Handled(k, m, [st EXCEPT ![c] = Merge(@, [badges |-> Get(st[c], "badges", <<>>)])],
                        "BADGE_TEXT", "none", <<>>)
           ELSE Handled(k, m, st, "TEMPLATE", "none", <<>>)

\* lines 684-693
BADGE_TEXT(k, m) ==
    /\ pc[k] = "BADGE_TEXT"
    /\ IsText(m)
    /\ LET c == k[1]
           st == session(c)
           badges == Get(st[c], "badges", <<>>)
       IN  IF lower(strip(m.text)) = S_done
           THEN Handled(k, m, st, "TEMPLATE", "none", <<>>)
           ELSE /\ Len(badges) < MaxSessionBadges
                /\ Handled(k, m,
                           [st EXCEPT ![c] = Merge(@, [badges |-> Append(badges,
                                                                 [text |-> strip(m.text)])])],
                           "BADGE_BG", "none", <<>>)

\* lines 696-700
BADGE_BG(k, m) ==
    /\ pc[k] = "BADGE_BG" /\ IsText(m)
    /\ StoresInLastBadge(k, m, [bg |-> text_or(m.text, S_white)], "BADGE_TEXT_COLOR")

\* lines 703-707
BADGE_TEXT_COLOR(k, m) ==
    /\ pc[k] = "BADGE_TEXT_COLOR" /\ IsText(m)
    /\ StoresInLastBadge(k, m, [color |-> text_or(m.text, S_black)], "BADGE_ALPHA")

\* lines 710-717
BADGE_ALPHA(k, m) ==
    /\ pc[k] = "BADGE_ALPHA" /\ IsText(m)
    /\ StoresInLastBadge(k, m, [alpha |-> int_or(m.text, 220)], "BADGE_RADIUS")

\* lines 720-727
BADGE_RADIUS(k, m) ==
    /\ pc[k] = "BADGE_RADIUS" /\ IsText(m)
    /\ StoresInLastBadge(k, m, [radius |-> int_or(m.text, 20)], "BADGE_POSITION")

\* lines 730-737
BADGE_POSITION(k, m) ==
    /\ pc[k] = "BADGE_POSITION" /\ IsText(m)
    /\ StoresInLastBadge(k, m, [position |-> choice(lower(strip(m.text)),
                                   <<S_top_left, S_top_right, S_bottom_left, S_bottom_right>>,
                                   S_top_left)],
              "BADGE_TEXT")

\* lines 740-749, the template_pick handler
TEMPLATE(k, m) ==
    /\ pc[k] = "TEMPLATE" /\ IsText(m)
    /\ Stores(k, m,
         [template |-> choice(lower(strip(m.text)), <<S_classic, S_modern, S_glass, S_poster>>,
                              S_classic)],
         "BACKGROUND_TYPE")

\* lines 752-769: every branch returns BACKGROUND_DETAIL
BACKGROUND_TYPE(k, m) ==
    /\ pc[k] = "BACKGROUND_TYPE" /\ IsText(m)
    /\ Stores(k, m,
         [background_type |-> choice(lower(strip(m.text)),
                                     <<S_solid, S_gradient, S_pattern, S_image>>, S_solid)],
         "BACKGROUND_DETAIL")

\* lines 772-794: the state accepts a text or a photo (line 984); a photo has
\* no text, so that text.strip() and text.split raise AttributeError
BACKGROUND_DETAIL(k, m) ==
    /\ pc[k] = "BACKGROUND_DETAIL"
    /\ LET c == k[1]
           st == session(c)
           kind == Get(st[c], "background_type", <<>>)
           parts == SelectSeq(Stripped(split_on(m.text, ",")), LAMBDA p : p # <<>>)
           o == IF kind = S_solid THEN [background_color |-> text_or(m.text, S_white)]
                ELSE IF kind = S_gradient
                THEN [background_colors |-> IF Len(parts) >= 2 THEN SubSeq(parts, 1, 2)
                                            ELSE <<S_hex000000, S_hexFFFFFF>>]
                ELSE [pattern_style |-> IF parts # <<>> THEN parts[1] ELSE S_stripes,
                      pattern_bg |-> IF Len(parts) >= 3 THEN parts[2] ELSE S_hex111111,
                      pattern_fg |-> IF Len(parts) >= 3 THEN parts[3] ELSE S_hex222222]
       IN  IF kind \in {S_solid, S_gradient, S_pattern}
           THEN IF IsText(m)
                THEN Handled(k, m, [st EXCEPT ![c] = Merge(@, o)], "LAYOUT", "none", <<>>)
                ELSE Handled(k, m, st, "BACKGROUND_DETAIL", "AttributeError", <<>>)
           ELSE IF kind = S_image /\ ~IsText(m)
           THEN Handled(k, m, [st EXCEPT ![c] = Merge(@, [background_image |-> m.photo])],
                        "LAYOUT", "none", <<>>)
           ELSE Handled(k, m, st, "LAYOUT", "none", <<>>)

\* lines 797-804
LAYOUT(k, m) ==
    /\ pc[k] = "LAYOUT" /\ IsText(m)
    /\ Stores(k, m,
         [layout |-> choice(lower(strip(m.text)), <<S_left, S_right, S_top, S_overlay>>, S_left)],
         "EFFECTS")

\* lines 807-815
EFFECTS(k, m) ==
    /\ pc[k] = "EFFECTS" /\ IsText(m)
    /\ Stores(k, m,
         [effects |-> LET txt == lower(strip(m.text))
                      IN  IF txt = S_none THEN <<>>
                          ELSE SelectSeq(Stripped(split_on(txt, ",")),
                                         LAMBDA e : InList(e, <<S_rounded, S_shadow, S_blur>>))],
         "EXPORT_FORMAT")

\* lines 818-825
EXPORT_FORMAT(k, m) ==
    /\ pc[k] = "EXPORT_FORMAT" /\ IsText(m)
    /\ Stores(k, m,
         [export |-> choice(lower(strip(m.text)), <<S_jpg, S_png, S_pdf>>, S_jpg)], "BRANDING")

\* lines 828-832
BRANDING(k, m) ==
    /\ pc[k] = "BRANDING" /\ IsText(m)
    /\ Stores(k, m, [branding |-> text_or(m.text, S_waalords)], "FONT_FAMILY_STYLE")

\* lines 835-844
FONT_FAMILY_STYLE(k, m) ==
    /\ pc[k] = "FONT_FAMILY_STYLE" /\ IsText(m)
    /\ Stores(k, m,
         [font |-> LET parts == split(strip(m.text))
                   IN  validated(IF parts # <<>> THEN parts[1] ELSE S_Roboto,
                                 IF Len(parts) > 1 THEN parts[2] ELSE S_Regular)],
         "TITLE_SIZE")

\* lines 847-854
TITLE_SIZE(k, m) ==
    /\ pc[k] = "TITLE_SIZE" /\ IsText(m)
    /\ Stores(k, m, [title_size |-> int_or(m.text, 50).int], "AUTHOR_SIZE")

\* lines 857-864
AUTHOR_SIZE(k, m) ==
    /\ pc[k] = "AUTHOR_SIZE" /\ IsText(m)
    /\ Stores(k, m, [author_size |-> int_or(m.text, 35).int], "SYNOPSIS_SIZE")

\* lines 867-874
SYNOPSIS_SIZE(k, m) ==
    /\ pc[k] = "SYNOPSIS_SIZE" /\ IsText(m)
    /\ Stores(k, m, [synopsis_size |-> int_or(m.text, 30).int], "BRANDING_SIZE")

\* lines 877-884
BRANDING_SIZE(k, m) ==
    /\ pc[k] = "BRANDING_SIZE" /\ IsText(m)
    /\ Stores(k, m, [branding_size |-> int_or(m.text, 25).int], "TITLE_COLOR")

\* lines 887-891
TITLE_COLOR(k, m) ==
    /\ pc[k] = "TITLE_COLOR" /\ IsText(m)
    /\ Stores(k, m, [title_color |-> text_or(m.text, S_black)], "AUTHOR_COLOR")

\* lines 894-898
AUTHOR_COLOR(k, m) ==
    /\ pc[k] = "AUTHOR_COLOR" /\ IsText(m)
    /\ Stores(k, m, [author_color |-> text_or(m.text, S_black)], "SYNOPSIS_COLOR")

\* lines 901-905
SYNOPSIS_COLOR(k, m) ==
    /\ pc[k] = "SYNOPSIS_COLOR" /\ IsText(m)
    /\ Stores(k, m, [synopsis_color |-> text_or(m.text, S_black)], "BRANDING_COLOR")

\* lines 908-932: the colour is stored, the card rendered and sent, and the
\* conversation ended; the session entry is left in the store
BRANDING_COLOR(k, m) ==
    /\ pc[k] = "BRANDING_COLOR"
    /\ IsText(m)
    /\ LET c == k[1]
           st == Stored(c, [branding_color |-> text_or(m.text, S_gray)])
           r == render_template(st[c])
       IN  Handled(k, m, st, "END", r.raised, <<r>>)

\* the messages a user sends in each state: for most steps with a list of
\* legal values one that is legal up to case and white space and one that is not
Answers(state) ==
    CASE state = "MANGA_IMG" -> {Photo(OpaqueImage)}
      [] state = "MANGA_NAME" -> {Text(<<"H","e","r","o">>)}
      [] state = "SYNOPSIS" -> {Text(<<"A"," ","h","e","r","o">>)}
      [] state = "AUTHOR" -> {Text(<<"K","i","m">>)}
      [] state = "YEAR" -> {Text(<<"2","0","2","4">>)}
      [] state = "CHAPTERS" -> {Text(<<"1","2">>)}
      [] state = "PERCENTAGE" -> {Text(<<"5","0">>)}
      [] state = "PERCENTAGE_BOX_POSITION" -> {Text(<<" ","T","o","p","-","L","e","f","t"," ">>), Text(<<"m","i","d","d","l","e">>)}
      [] state = "PERCENTAGE_BOX_BG" -> {Text(<<"w","h","i","t","e">>)}
      [] state = "PERCENTAGE_BOX_ALPHA" -> {Text(<<"2","0","0">>)}
      [] state = "PERCENTAGE_BOX_BORDER" -> {Text(<<"b","l","a","c","k">>)}
      [] state = "PERCENTAGE_BOX_RADIUS" -> {Text(<<"1","0">>)}
      [] state = "PERCENTAGE_BOX_CHAPTERS" -> {Text(<<"n","o">>)}
      [] state = "BADGE_START" -> {Text(<<"Y","e","s">>), Text(<<"n","o">>)}
      [] state = "BADGE_TEXT" -> {Text(<<"N","e","w">>), Text(<<"d","o","n","e">>)}
      [] state = "BADGE_BG" -> {Text(<<"r","e","d">>)}
      [] state = "BADGE_TEXT_COLOR" -> {Text(<<"b","l","a","c","k">>)}
      [] state = "BADGE_ALPHA" -> {Text(<<"1","2","8">>)}
      [] state = "BADGE_RADIUS" -> {Text(<<"8">>)}
      [] state = "BADGE_POSITION" -> {Text(<<"B","o","t","t","o","m","-","R","i","g","h","t">>), Text(<<"c","o","r","n","e","r">>)}
      [] state = "TEMPLATE" -> {Text(<<"f","a","n","c","y">>)}
      [] state = "BACKGROUND_TYPE" -> {Text(<<"p","a","t","t","e","r","n">>), Text(<<"v","i","d","e","o">>)}
      [] state = "BACKGROUND_DETAIL" -> {Text(<<"d","o","t","s">>), Photo(OpaqueImage)}
      [] state = "LAYOUT" -> {Text(<<"R","i","g","h","t">>), Text(<<"d","i","a","g","o","n","a","l">>)}
      [] state = "EFFECTS" -> {Text(<<"s","h","a","d","o","w",","," ","g","l","o","w",",","b","l","u","r">>), Text(<<"n","o","n","e">>)}
      [] state = "EXPORT_FORMAT" -> {Text(<<"g","i","f">>)}
      [] state = "BRANDING" -> {Text(<<"w","a","a","l","o","r","d","s">>)}
      [] state = "FONT_FAMILY_STYLE" -> {Text(<<"R","o","b","o","t","o"," ","B","o","l","d">>)}
      [] state = "TITLE_SIZE" -> {Text(<<"6","0">>)}
      [] state = "AUTHOR_SIZE" -> {Text(<<"4","0">>)}
      [] state = "SYNOPSIS_SIZE" -> {Text(<<"2","8">>), Text(<<"0">>)}
      [] state = "BRANDING_SIZE" -> {Text(<<"2","0">>)}
      [] state = "TITLE_COLOR" -> {Text(<<"b","l","a","c","k">>)}
      [] state = "AUTHOR_COLOR" -> {Text(<<"b","l","a","c","k">>)}
      [] state = "SYNOPSIS_COLOR" -> {Text(<<"b","l","a","c","k">>)}
      [] state = "BRANDING_COLOR" -> {Text(<<"g","r","a","y">>)}

\* one message for each state, and done at the badge prompt
PlainAnswers(state) ==
    CASE state = "MANGA_IMG" -> {Photo(OpaqueImage)}
      [] state = "MANGA_NAME" -> {Text(<<"H","e","r","o">>)}
      [] state = "SYNOPSIS" -> {Text(<<"A"," ","h","e","r","o">>)}
      [] state = "AUTHOR" -> {Text(<<"K","i","m">>)}
      [] state = "YEAR" -> {Text(<<"2","0","2","4">>)}
      [] state = "CHAPTERS" -> {Text(<<"1","2">>)}
      [] state = "PERCENTAGE" -> {Text(<<"5","0">>)}
      [] state = "PERCENTAGE_BOX_POSITION" -> {Text(<<" ","T","o","p","-","L","e","f","t"," ">>)}
      [] state = "PERCENTAGE_BOX_BG" -> {Text(<<"w","h","i","t","e">>)}
      [] state = "PERCENTAGE_BOX_ALPHA" -> {Text(<<"2","0","0">>)}
      [] state = "PERCENTAGE_BOX_BORDER" -> {Text(<<"b","l","a","c","k">>)}
      [] state = "PERCENTAGE_BOX_RADIUS" -> {Text(<<"1","0">>)}
      [] state = "PERCENTAGE_BOX_CHAPTERS" -> {Text(<<"n","o">>)}
      [] state = "BADGE_START" -> {Text(<<"Y","e","s">>)}
      [] state = "BADGE_TEXT" -> {Text(<<"N","e","w">>), Text(<<"d","o","n","e">>)}
      [] state = "BADGE_BG" -> {Text(<<"r","e","d">>)}
      [] state = "BADGE_TEXT_COLOR" -> {Text(<<"b","l","a","c","k">>)}
      [] state = "BADGE_ALPHA" -> {Text(<<"1","2","8">>)}
      [] state = "BADGE_RADIUS" -> {Text(<<"8">>)}
      [] state = "BADGE_POSITION" -> {Text(<<"B","o","t","t","o","m","-","R","i","g","h","t">>)}
      [] state = "TEMPLATE" -> {Text(<<"f","a","n","c","y">>)}
      [] state = "BACKGROUND_TYPE" -> {Text(<<"p","a","t","t","e","r","n">>)}
      [] state = "BACKGROUND_DETAIL" -> {Text(<<"d","o","t","s">>)}
      [] state = "LAYOUT" -> {Text(<<"R","i","g","h","t">>)}
      [] state = "EFFECTS" -> {Text(<<"s","h","a","d","o","w",","," ","g","l","o","w",",","b","l","u","r">>)}
      [] state = "EXPORT_FORMAT" -> {Text(<<"g","i","f">>)}
      [] state = "BRANDING" -> {Text(<<"w","a","a","l","o","r","d","s">>)}
      [] state = "FONT_FAMILY_STYLE" -> {Text(<<"R","o","b","o","t","o"," ","B","o","l","d">>)}
      [] state = "TITLE_SIZE" -> {Text(<<"6","0">>)}
      [] state = "AUTHOR_SIZE" -> {Text(<<"4","0">>)}
      [] state = "SYNOPSIS_SIZE" -> {Text(<<"2","8">>)}
      [] state = "BRANDING_SIZE" -> {Text(<<"2","0">>)}
      [] state = "TITLE_COLOR" -> {Text(<<"b","l","a","c","k">>)}
      [] state = "AUTHOR_COLOR" -> {Text(<<"b","l","a","c","k">>)}
      [] state = "SYNOPSIS_COLOR" -> {Text(<<"b","l","a","c","k">>)}
      [] state = "BRANDING_COLOR" -> {Text(<<"g","r","a","y">>)}

\* the command handlers added after the conversation (lines 1006-1010)
Commands(k) ==
    \/ cmd_preview(k)
    \/ cmd_colors(k)
    \/ cmd_fonts(k)
    \/ cmd_addbadge(k)
    \/ cmd_clearbadges(k)

\* the messages sent in a state: the varied ones, or the plain ones
Messages(state, varied) == IF varied THEN Answers(state) ELSE PlainAnswers(state)

\* the ConversationHandler (lines 957-1003): an update of the conversation k,
\* with the varied or the plain messages for the step of each state
Conversation(k, varied) ==
    \/ start(k)
    \/ cancel(k)
    \/ \E m \in Messages("MANGA_IMG", varied) : MANGA_IMG(k, m)
    \/ \E m \in Messages("MANGA_NAME", varied) : MANGA_NAME(k, m)
    \/ \E m \in Messages("SYNOPSIS", varied) : SYNOPSIS(k, m)
    \/ \E m \in Messages("AUTHOR", varied) : AUTHOR(k, m)
    \/ \E m \in Messages("YEAR", varied) : YEAR(k, m)
    \/ \E m \in Messages("CHAPTERS", varied) : CHAPTERS(k, m)
    \/ \E m \in Messages("PERCENTAGE", varied) : PERCENTAGE(k, m)
    \/ \E m \in Messages("PERCENTAGE_BOX_POSITION", varied) : PERCENTAGE_BOX_POSITION(k, m)
    \/ \E m \in Messages("PERCENTAGE_BOX_BG", varied) : PERCENTAGE_BOX_BG(k, m)
    \/ \E m \in Messages("PERCENTAGE_BOX_ALPHA", varied) : PERCENTAGE_BOX_ALPHA(k, m)
    \/ \E m \in Messages("PERCENTAGE_BOX_BORDER", varied) : PERCENTAGE_BOX_BORDER(k, m)
    \/ \E m \in Messages("PERCENTAGE_BOX_RADIUS", varied) : PERCENTAGE_BOX_RADIUS(k, m)
    \/ \E m \in Messages("PERCENTAGE_BOX_CHAPTERS", varied) : PERCENTAGE_BOX_CHAPTERS(k, m)
    \/ \E m \in Messages("BADGE_START", varied) : BADGE_START(k, m)
    \/ \E m \in Messages("BADGE_TEXT", varied) : BADGE_TEXT(k, m)
    \/ \E m \in Messages("BADGE_BG", varied) : BADGE_BG(k, m)
    \/ \E m \in Messages("BADGE_TEXT_COLOR", varied) : BADGE_TEXT_COLOR(k, m)
    \/ \E m \in Messages("BADGE_ALPHA", varied) : BADGE_ALPHA(k, m)
    \/ \E m \in Messages("BADGE_RADIUS", varied) : BADGE_RADIUS(k, m)
    \/ \E m \in Messages("BADGE_POSITION", varied) : BADGE_POSITION(k, m)
    \/ \E m \in Messages("TEMPLATE", varied) : TEMPLATE(k, m)
    \/ \E m \in Messages("BACKGROUND_TYPE", varied) : BACKGROUND_TYPE(k, m)
    \/ \E m \in Messages("BACKGROUND_DETAIL", varied) : BACKGROUND_DETAIL(k, m)
    \/ \E m \in Messages("LAYOUT", varied) : LAYOUT(k, m)
    \/ \E m \in Messages("EFFECTS", varied) : EFFECTS(k, m)
    \/ \E m \in Messages("EXPORT_FORMAT", varied) : EXPORT_FORMAT(k, m)
    \/ \E m \in Messages("BRANDING", varied) : BRANDING(k, m)
    \/ \E m \in Messages("FONT_FAMILY_STYLE", varied) : FONT_FAMILY_STYLE(k, m)
    \/ \E m \in Messages("TITLE_SIZE", varied) : TITLE_SIZE(k, m)
    \/ \E m \in Messages("AUTHOR_SIZE", varied) : AUTHOR_SIZE(k, m)
    \/ \E m \in Messages("SYNOPSIS_SIZE", varied) : SYNOPSIS_SIZE(k, m)
    \/ \E m \in Messages("BRANDING_SIZE", varied) : BRANDING_SIZE(k, m)
    \/ \E m \in Messages("TITLE_COLOR", varied) : TITLE_COLOR(k, m)
    \/ \E m \in Messages("AUTHOR_COLOR", varied) : AUTHOR_COLOR(k, m)
    \/ \E m \in Messages("SYNOPSIS_COLOR", varied) : SYNOPSIS_COLOR(k, m)
    \/ \E m \in Messages("BRANDING_COLOR", varied) : BRANDING_COLOR(k, m)

\* one user converses with the bot
NextConversation ==
    \/ Conversation(Host, TRUE)
    \/ Commands(Host)

SpecConversation == InitConversation /\ [][NextConversation]_vars

\* two users of one chat converse with the bot; the second takes only the
\* first steps of a conversation
NextChat ==
    \/ Conversation(Host, FALSE)
    \/ /\ StateIndex(pc[Guest]) <= MaxGuestSteps
       /\ Conversation(Guest, FALSE)

SpecChat == InitConversation /\ [][NextChat]_vars

(***************************************************************************)
(* Properties of the conversation.                                         *)
(***************************************************************************)
\* the conversation key of the update handled last
LastKey == <<update.chat, update.user>>

\* the update handled last went to one of the command handlers outside the
\* ConversationHandler
LastWasCommand ==
    update.message \in {Text(S_preview), Text(S_colors), Text(S_fonts), Text(S_addbadge),
                        Text(S_clearbadges)}

\* the update handled last ended its conversation
ConversationJustEnded == update # <<>> /\ ~LastWasCommand /\ pc[LastKey] = "END"

\* C23: a chat's session entry is discarded when its conversation ends: right
\* after the final render of the branding_color step, and right after /cancel,
\* the session store holds no entry for that chat.
C23_SessionDiscardedWhenConversationEnds ==
    ConversationJustEnded => update.chat \notin DOMAIN SESSIONS

\* /cancel does discard the entry
CancelDiscardsTheSession ==
    (update # <<>> /\ update.message = Text(S_cancel)) => update.chat \notin DOMAIN SESSIONS

\* after the final render the card's data is still in the store and a later
\* /preview renders it again
PreviewRendersTheFinishedCard ==
    /\ update # <<>>
    /\ update.message = Text(S_preview)
    /\ pc[LastKey] = "END"
    /\ returned # <<>>
    /\ returned[1].raised = "none"
    /\ "name" \in DOMAIN SESSIONS[update.chat]

\* C24: right after /start, whatever the chat's session held before, it holds
\* exactly the default values of session() and no thumbnail.
C24_StartResetsSessionToDefaults ==
    (update # <<>> /\ update.message = Text(S_start)) => SESSIONS[update.chat] = DefaultSession

\* what /start leaves instead: an entry with no key at all
StartLeavesAnEmptySession ==
    (update # <<>> /\ update.message = Text(S_start)) => DOMAIN SESSIONS[update.chat] = {}

\* C25: right after /addbadge is handled, the conversation of the user who
\* sent it is in the badge-text state, so that the next plain text message is
\* taken as the text of a new badge.
C25_AddBadgeEntersBadgeText ==
    (update # <<>> /\ update.message = Text(S_addbadge)) => pc[LastKey] = "BADGE_TEXT"

\* /addbadge leaves every conversation where it was
AddBadgeLeavesTheConversationWhereItWas ==
    [][update'.message = Text(S_addbadge) => pc' = pc]_vars

\* /addbadge was handled outside a conversation: no handler takes the next
\* plain text
AddBadgeOutsideAConversation ==
    /\ update # <<>>
    /\ update.message = Text(S_addbadge)
    /\ pc[LastKey] = "END"
    /\ SESSIONS[update.chat].badges = <<>>

\* the states in which a badge step handler writes to the last badge
BadgeEditStates == {"BADGE_BG", "BADGE_TEXT_COLOR", "BADGE_ALPHA", "BADGE_RADIUS", "BADGE_POSITION"}

\* the chat's session has a non-empty badge list whose last badge is not
\* completed yet
HasBadgeInProgress(c) ==
    /\ c \in DOMAIN SESSIONS
    /\ "badges" \in DOMAIN SESSIONS[c]
    /\ SESSIONS[c].badges # <<>>
    /\ "position" \notin DOMAIN SESSIONS[c].badges[Len(SESSIONS[c].badges)]

\* C26: whenever a conversation waits in BADGE_BG, BADGE_TEXT_COLOR,
\* BADGE_ALPHA, BADGE_RADIUS or BADGE_POSITION, the chat's session has a
\* non-empty badge list whose last element is the badge being edited, under
\* every interleaving of /clearbadges, /preview, /colors, /fonts and /addbadge
\* with the steps; and no badge step handler fails on a missing or empty list.
C26_BadgeInProgressWhileEditing ==
    /\ \A k \in Keys : pc[k] \in BadgeEditStates => HasBadgeInProgress(k[1])
    /\ raised \notin {"IndexError", "KeyError"}

\* without /clearbadges in between, the badge steps find their badge
BadgeStepsFailOnlyAfterClearBadges ==
    [][raised' \in {"IndexError", "KeyError"} =>
          /\ pc[<<update'.chat, update'.user>>] \in BadgeEditStates
          /\ SESSIONS[update'.chat].badges = <<>>]_vars

\* /clearbadges came while the badge's background was awaited, and the
\* badge_bg step failed on the empty list
BadgeStepFailedOnEmptyList ==
    /\ raised = "IndexError"
    /\ pc[Host] = "BADGE_BG"
    /\ SESSIONS[1].badges = <<>>

\* the update handled by this step leaves every field of the chat's session
\* as it was
SessionKept(c) ==
    c \in DOMAIN SESSIONS =>
        /\ c \in DOMAIN SESSIONS'
        /\ \A f \in DOMAIN SESSIONS[c] :
              f \in DOMAIN SESSIONS'[c] /\ SESSIONS'[c][f] = SESSIONS[c][f]

\* C27: two users converse at the same time in one chat: a step, /start or
\* /cancel of one user never changes or removes the data collected so far
\* for the other user's conversation in progress, and no step fails.
C27_UsersOfAChatDoNotInterfere ==
    [][LET actor == <<update'.chat, update'.user>>
       IN  /\ raised' = "none"
           /\ \A k \in Keys \ {actor} :
                 (k[1] = actor[1] /\ pc[k] # "END") => SessionKept(k[1])]_vars

\* the second user's /start emptied the session the first user was filling
GuestStartErasedHostData ==
    /\ update # <<>>
    /\ update.user = 2
    /\ update.message = Text(S_start)
    /\ pc[Host] = "BADGE_BG"
    /\ DOMAIN SESSIONS[1] = {}

\* and the first user's next step failed on the missing badge list
HostStepFailedAfterGuestStart ==
    /\ update # <<>>
    /\ update.user = 1
    /\ raised = "KeyError"
    /\ pc[Host] = "BADGE_BG"
    /\ pc[Guest] = "MANGA_IMG"

\* every enumerated field the session dict s holds has a legal value
LegalSession(s) ==
    /\ "percentage_box_position" \in DOMAIN s => s.percentage_box_position \in Corners
    /\ "badges" \in DOMAIN s =>
          \A i \in 1..Len(s.badges) :
              "position" \in DOMAIN s.badges[i] => s.badges[i].position \in Corners
    /\ "template" \in DOMAIN s => s.template \in {S_classic, S_modern, S_glass, S_poster}
    /\ "background_type" \in DOMAIN s =>
          s.background_type \in {S_solid, S_gradient, S_pattern, S_image}
    /\ "layout" \in DOMAIN s => s.layout \in {S_left, S_right, S_top, S_overlay}
    /\ "export" \in DOMAIN s => s.export \in {S_jpg, S_png, S_pdf}
    /\ "effects" \in DOMAIN s =>
          \A i \in 1..Len(s.effects) : s.effects[i] \in {S_rounded, S_shadow, S_blur}

\* C28: after any sequence of conversation steps and commands with arbitrary
\* user text, every enumerated field present in a session holds a legal
\* value: percentage_box_position and each completed badge's position one of
\* the four corners, template one of classic/modern/glass/poster,
\* background_type one of solid/gradient/pattern/image, layout one of
\* left/right/top/overlay, export one of jpg/png/pdf, and effects only
\* rounded, shadow and blur.
C28_EnumeratedFieldsAreLegal ==
    \A c \in DOMAIN SESSIONS : LegalSession(SESSIONS[c])

\* a card was finished with " Top-Left " typed for the panel, "corner" for a
\* badge, "fancy" for the template, "diagonal" for the layout,
\* "shadow, glow,blur" for the effects and "gif" for the format
C28_Witness ==
    /\ pc[Host] = "END"
    /\ 1 \in DOMAIN SESSIONS
    /\ {"percentage_box_position", "badges", "template", "layout", "effects", "export"}
           \subseteq DOMAIN SESSIONS[1]
    /\ SESSIONS[1].percentage_box_position = S_top_left
    /\ SESSIONS[1].badges # <<>>
    /\ Get(SESSIONS[1].badges[1], "position", <<>>) = S_top_left
    /\ SESSIONS[1].template = S_classic
    /\ SESSIONS[1].layout = S_left
    /\ SESSIONS[1].effects = <<S_shadow, S_blur>>
    /\ SESSIONS[1].export = S_jpg
    /\ returned # <<>>

\* the message is an answer to a prompt, not a command
IsAnswer(m) ==
    m \notin {Text(S_start), Text(S_cancel), Text(S_preview), Text(S_colors), Text(S_fonts),
              Text(S_addbadge), Text(S_clearbadges)}

\* t follows s in the flow the claim describes: the next state in the
\* declared order, the way past or out of the badge loop, the loop's back
\* edge, or the end after the last state
NextInFlow(s, t) ==
    \/ /\ s \notin {"END", "BADGE_POSITION", "BRANDING_COLOR"}
       /\ StateIndex(t) = StateIndex(s) + 1
    \/ s \in {"BADGE_START", "BADGE_TEXT"} /\ t = "TEMPLATE"
    \/ s = "BADGE_POSITION" /\ t = "BADGE_TEXT"
    \/ s = "BRANDING_COLOR" /\ t = "END"

\* the flow, for the update this step handles
FlowStep ==
    LET k == <<update'.chat, update'.user>>
    IN  /\ IsAnswer(update'.message) => NextInFlow(pc[k], pc'[k])
        /\ (IsAnswer(update'.message) /\ pc[k] = "BRANDING_COLOR") =>
               Len(returned') = 1 /\ returned'[1].raised = "none"
        /\ (pc[k] # "END" /\ pc'[k] = "END") =>
               update'.message = Text(S_cancel) \/ pc[k] = "BRANDING_COLOR"
        /\ \A j \in Keys \ {k} : pc'[j] = pc[j]

\* C29: the conversation is a linear flow with one loop: each accepted
\* message moves its conversation to the next state in the declared order,
\* the only cycle is BADGE_TEXT -> BADGE_BG -> BADGE_TEXT_COLOR -> BADGE_ALPHA
\* -> BADGE_RADIUS -> BADGE_POSITION -> BADGE_TEXT, and the conversation ends
\* only through /cancel or through the branding_color step, which performs
\* the final render exactly once; so a user who answers every prompt moves on
\* at every answer and reaches the end.
C29_LinearFlowWithOneLoop == [][FlowStep]_vars

\* the flow holds for every update whose handler does not raise
FlowHoldsWhenNoHandlerRaises == [][raised' = "none" => FlowStep]_vars

\* every prompt was answered, the synopsis size with "0": the final render
\* failed and the conversation is still at its last state
FinalRenderFailed ==
    /\ pc[Host] = "BRANDING_COLOR"
    /\ update # <<>>
    /\ IsAnswer(update.message)
    /\ raised = "AttributeError"
    /\ returned # <<>>
    /\ SESSIONS[1].synopsis_size = 0

====
